---------------------------- MODULE Spec2Model ----------------------------
(***************************************************************************)
(* A model of the formula evaluator: the tokenizer (lexer.rs), the         *)
(* shunting-yard parser (parser.rs), the postfix evaluator (processor.rs)  *)
(* and the entry point parse_formula (lib.rs).                             *)
(*                                                                         *)
(* Text is a sequence of one-character strings.  An f64 is a pair <<n, d>>:*)
(*   d > 0, n # 0   the rational n/d in lowest terms                       *)
(*   <<0, 1>>, <<0, -1>>     +0.0 and -0.0                                 *)
(*   <<1, 0>>, <<-1, 0>>     +inf and -inf                                 *)
(*   <<0, 0>>                NaN                                           *)
(* Arithmetic follows IEEE 754 on these values except for rounding: every  *)
(* finite result is kept exact.                                            *)
(***************************************************************************)
EXTENDS Integers, Sequences, FiniteSets, TLC

\* ------------------------------------------------------------------ f64

NaN == <<0, 0>>
PosInf == <<1, 0>>
NegInf == <<-1, 0>>
PosZero == <<0, 1>>
NegZero == <<0, -1>>
One == <<1, 1>>

Abs(x) == IF x < 0 THEN -x ELSE x

RECURSIVE Gcd(_, _)
Gcd(a, b) == IF b = 0 THEN a ELSE Gcd(b, a % b)

IsNaN(v) == v = NaN
IsInf(v) == v[2] = 0 /\ v[1] # 0
IsZero(v) == v[1] = 0 /\ v[2] # 0
\* the sign bit
IsNeg(v) == v[1] < 0 \/ (v[1] = 0 /\ v[2] = -1)
Den(v) == IF v[2] = -1 THEN 1 ELSE v[2]
Zero(neg) == IF neg THEN NegZero ELSE PosZero
Inf(neg) == IF neg THEN NegInf ELSE PosInf

\* n/d with d > 0 and n # 0, in lowest terms
Norm(n, d) == LET g == Gcd(Abs(n), d) IN <<n \div g, d \div g>>

\* n/d for any d # 0; a zero takes the sign neg
Ratio(n, d, neg) ==
    IF n = 0 THEN Zero(neg)
    ELSE IF d < 0 THEN Norm(-n, -d) ELSE Norm(n, d)

FNeg(a) ==
    IF IsNaN(a) THEN NaN
    ELSE IF IsZero(a) THEN Zero(~IsNeg(a))
    ELSE <<-a[1], a[2]>>

\* v1 + v2
FAdd(a, b) ==
    IF IsNaN(a) \/ IsNaN(b) THEN NaN
    ELSE IF IsInf(a) THEN (IF IsInf(b) /\ b # a THEN NaN ELSE a)
    ELSE IF IsInf(b) THEN b
    ELSE Ratio(a[1] * Den(b) + b[1] * Den(a), Den(a) * Den(b),
               IsZero(a) /\ IsZero(b) /\ IsNeg(a) /\ IsNeg(b))

\* v1 - v2
FSub(a, b) == FAdd(a, FNeg(b))

\* v1 * v2
FMul(a, b) ==
    IF IsNaN(a) \/ IsNaN(b) THEN NaN
    ELSE IF (IsInf(a) /\ IsZero(b)) \/ (IsZero(a) /\ IsInf(b)) THEN NaN
    ELSE IF IsInf(a) \/ IsInf(b) THEN Inf(IsNeg(a) # IsNeg(b))
    ELSE Ratio(a[1] * b[1], Den(a) * Den(b), IsNeg(a) # IsNeg(b))

\* v1 / v2
FDiv(a, b) ==
    IF IsNaN(a) \/ IsNaN(b) THEN NaN
    ELSE IF (IsInf(a) /\ IsInf(b)) \/ (IsZero(a) /\ IsZero(b)) THEN NaN
    ELSE IF IsInf(a) \/ IsZero(b) THEN Inf(IsNeg(a) # IsNeg(b))
    ELSE IF IsInf(b) THEN Zero(IsNeg(a) # IsNeg(b))
    ELSE Ratio(a[1] * Den(b), Den(a) * b[1], IsNeg(a) # IsNeg(b))

\* v1 % v2: the remainder of the division truncated toward zero; it has the
\* sign of the dividend
FRem(a, b) ==
    IF IsNaN(a) \/ IsNaN(b) \/ IsInf(a) \/ IsZero(b) THEN NaN
    ELSE IF IsInf(b) \/ IsZero(a) THEN a
    ELSE LET q == (Abs(a[1]) * b[2]) \div (a[2] * Abs(b[1]))
             sq == IF IsNeg(a) # IsNeg(b) THEN -q ELSE q
         IN Ratio(a[1] * b[2] - b[1] * sq * a[2], a[2] * b[2], IsNeg(a))

FEq(a, b) == ~IsNaN(a) /\ ~IsNaN(b) /\ (a = b \/ (IsZero(a) /\ IsZero(b)))
FLt(a, b) ==
    /\ ~IsNaN(a)
    /\ ~IsNaN(b)
    /\ IF IsInf(a) \/ IsInf(b)
       THEN (a = NegInf /\ b # NegInf) \/ (b = PosInf /\ a # PosInf)
       ELSE a[1] * Den(b) < b[1] * Den(a)
FromBool(p) == IF p THEN One ELSE PosZero

\* ------------------------------------------------------------------ text

Digits == <<"0", "1", "2", "3", "4", "5", "6", "7", "8", "9">>
UpperCase == {"A", "B", "C", "D", "E", "F", "G", "H", "I", "J", "K", "L", "M",
              "N", "O", "P", "Q", "R", "S", "T", "U", "V", "W", "X", "Y", "Z"}
LowerCase == {"a", "b", "c", "d", "e", "f", "g", "h", "i", "j", "k", "l", "m",
              "n", "o", "p", "q", "r", "s", "t", "u", "v", "w", "x", "y", "z"}

\* char::is_numeric, is_uppercase, is_lowercase, is_alphabetic, is_whitespace
\* on the ASCII characters
is_numeric(c) == \E i \in 1..Len(Digits) : Digits[i] = c
\* a test of the first character that takes every letter for an uppercase one
is_letter(c) == c \in UpperCase \cup LowerCase
is_uppercase(c) == c \in UpperCase
is_lowercase(c) == c \in LowerCase
is_alphabetic(c) == c \in UpperCase \cup LowerCase
is_whitespace(c) == c = " "

DigitVal(c) == (CHOOSE i \in 1..Len(Digits) : Digits[i] = c) - 1

RECURSIVE Pow10(_)
Pow10(k) == IF k = 0 THEN 1 ELSE 10 * Pow10(k - 1)

\* the digits of s (dots skipped) read as a decimal integer
RECURSIVE DigitsValue(_, _)
DigitsValue(s, acc) ==
    IF s = <<>> THEN acc
    ELSE IF Head(s) = "." THEN DigitsValue(Tail(s), acc)
    ELSE DigitsValue(Tail(s), 10 * acc + DigitVal(Head(s)))

\* str::parse::<f64> on a string of digits, dots and signs: an optional sign,
\* then digits with at most one dot and at least one digit
parse_f64(str) ==
    LET signed == str # <<>> /\ Head(str) \in {"+", "-"}
        body == IF signed THEN Tail(str) ELSE str
        dots == {i \in 1..Len(body) : body[i] = "."}
        digs == {i \in 1..Len(body) : is_numeric(body[i])}
        neg == signed /\ Head(str) = "-"
    IN IF digs = {} \/ Cardinality(dots) > 1
           \/ Cardinality(dots) + Cardinality(digs) # Len(body)
       THEN [ok |-> FALSE, msg |-> <<"invalid float literal">>]
       ELSE LET frac == IF dots = {} THEN 0
                        ELSE Len(body) - (CHOOSE i \in dots : TRUE)
                n == DigitsValue(body, 0)
            IN [ok |-> TRUE,
                val |-> Ratio(IF neg THEN -n ELSE n, Pow10(frac), neg)]


\* ------------------------------------------------------------------ lexer.rs

\* enum Token
Tok(t) == [type |-> t]
NumberTok(v) == [type |-> "Number", val |-> v]
PropertyTok(name) == [type |-> "Property", name |-> name]
WhiteSpace == Tok("WhiteSpace")
LeftParenthesis == Tok("LeftParenthesis")
RightParenthesis == Tok("RightParenthesis")
Comma == Tok("Comma")

\* the tier of + - % and the comparisons, and the tier of * /
Tier1 == {"Plus", "Minus", "Percent", "Equal", "NotEqual", "GreaterThan",
          "GreaterThanOrEqual", "LessThan", "LessThanOrEqual"}
Tier2 == {"Asterisk", "Slash"}
Operators == Tier1 \cup Tier2
\* an arriving + - % that leaves the comparisons on the stack
Tier1PopsArithmetic ==
    {"Plus", "Minus", "Percent", "Asterisk", "Slash"}
\* an arriving * / that pops every operator
Tier2PopsAll == Operators
\* the operators an arriving operator of each tier pops from the stack
Tier1Pops == Operators
Tier2Pops == {"Asterisk", "Slash"}

\* Result<_, LexerError>; pos is the index of the next unread character, so
\* that chars.peek() is s[pos], or None when pos > Len(s)
LexOk(tokens, pos) == [ok |-> TRUE, tokens |-> tokens, pos |-> pos]
LexErr(msg) == [ok |-> FALSE, msg |-> msg]
\* a panic: an unwrap() on None
LexPanic(msg) == [ok |-> FALSE, panic |-> TRUE, msg |-> msg]

operator_to_token(c) ==
    CASE c = <<"+">> -> [ok |-> TRUE, token |-> Tok("Plus")]
      [] c = <<"-">> -> [ok |-> TRUE, token |-> Tok("Minus")]
      [] c = <<"*">> -> [ok |-> TRUE, token |-> Tok("Asterisk")]
      [] c = <<"/">> -> [ok |-> TRUE, token |-> Tok("Slash")]
      [] c = <<"%">> -> [ok |-> TRUE, token |-> Tok("Percent")]
      [] c = <<">">> -> [ok |-> TRUE, token |-> Tok("GreaterThan")]
      [] c = <<"<">> -> [ok |-> TRUE, token |-> Tok("LessThan")]
      [] c = <<">", "=">> -> [ok |-> TRUE, token |-> Tok("GreaterThanOrEqual")]
      [] c = <<"<", "=">> -> [ok |-> TRUE, token |-> Tok("LessThanOrEqual")]
      [] c = <<"=", "=">> -> [ok |-> TRUE, token |-> Tok("Equal")]
      [] c = <<"!", "=">> -> [ok |-> TRUE, token |-> Tok("NotEqual")]
      [] OTHER -> LexErr(<<"error: unexpected char, ", c>>)

\* the position after the run of whitespace that starts at pos
RECURSIVE SkipWhitespace(_, _)
SkipWhitespace(s, pos) ==
    IF pos <= Len(s) /\ is_whitespace(s[pos]) THEN SkipWhitespace(s, pos + 1)
    ELSE pos

\* one WhiteSpace token per whitespace character read
read_whitespace_tokens(s, pos) ==
    LET p == SkipWhitespace(s, pos)
    IN LexOk([i \in 1..(p - pos) |-> WhiteSpace], p)

\* a lookahead that consumes the character it looked at, whatever it is
read_comparison_operator_eager(s, pos, first_char) ==
    IF first_char \in {">", "<"} THEN
        IF pos > Len(s) THEN LexErr(<<"error: unexpected end of line">>)
        ELSE IF s[pos] = "="
        THEN LET t == operator_to_token(<<first_char, s[pos]>>)
             IN IF t.ok THEN LexOk(<<t.token>>, pos + 1) ELSE t
        ELSE LET t == operator_to_token(<<first_char>>)
             IN IF t.ok THEN LexOk(<<t.token>>, pos + 1) ELSE t
    ELSE IF first_char \in {"=", "!"} THEN
        IF pos > Len(s) THEN LexErr(<<"error: unexpected end of line">>)
        ELSE IF s[pos] = "="
        THEN LET t == operator_to_token(<<first_char, s[pos]>>)
             IN IF t.ok THEN LexOk(<<t.token>>, pos + 1) ELSE t
        ELSE LexErr(<<"error: unexpected char after equal, ", s[pos]>>)
    ELSE LexErr(<<"error: unexpected char, ", first_char>>)

\* first_char has been consumed; pos is at the character after it
read_comparison_operator(s, pos, first_char) ==
    IF first_char \in {">", "<"} THEN
        IF pos > Len(s) THEN LexErr(<<"error: unexpected end of line">>)
        ELSE IF s[pos] = "="
        THEN LET t == operator_to_token(<<first_char, s[pos]>>)
             IN IF t.ok THEN LexOk(<<t.token>>, pos + 1) ELSE t
        ELSE LET t == operator_to_token(<<first_char>>)
             IN IF t.ok THEN LexOk(<<t.token>>, pos) ELSE t
    ELSE IF first_char \in {"=", "!"} THEN
        IF pos > Len(s) THEN LexErr(<<"error: unexpected end of line">>)
        ELSE IF s[pos] = "="
        THEN LET t == operator_to_token(<<first_char, s[pos]>>)
             IN IF t.ok THEN LexOk(<<t.token>>, pos + 1) ELSE t
        ELSE LexErr(<<"error: unexpected char after equal, ", s[pos]>>)
    ELSE LexErr(<<"error: unexpected char, ", first_char>>)

\* the position after the alphabetic run that starts at pos
RECURSIVE SkipAlphabetic(_, _)
SkipAlphabetic(s, pos) ==
    IF pos <= Len(s) /\ is_alphabetic(s[pos]) THEN SkipAlphabetic(s, pos + 1)
    ELSE pos

\* <property> := [a-zA-Z]+
property(s, pos) ==
    LET w == read_whitespace_tokens(s, pos)
        p == SkipAlphabetic(s, w.pos)
    IN IF p = w.pos THEN LexErr(<<"error: property is empty">>)
       ELSE LexOk(Append(w.tokens, PropertyTok(SubSeq(s, w.pos, p - 1))), p)

\* <variable> := <property>
variable(s, pos) == property(s, pos)

\* a scan that takes a sign at any place of the literal
RECURSIVE SkipNumberAnySign(_, _, _)
SkipNumberAnySign(s, pos, start) ==
    IF pos <= Len(s)
       /\ (is_numeric(s[pos]) \/ s[pos] \in {".", "+", "-"})
    THEN SkipNumberAnySign(s, pos + 1, start)
    ELSE pos

\* the position after the characters number() reads from pos: digits and
\* dots, and a sign only as the first character; start is where it began
RECURSIVE SkipNumber(_, _, _)
SkipNumber(s, pos, start) ==
    IF pos <= Len(s)
       /\ (is_numeric(s[pos]) \/ s[pos] = "."
           \/ (pos = start /\ s[pos] \in {"+", "-"}))
    THEN SkipNumber(s, pos + 1, start)
    ELSE pos

\* str.chars().nth(n): the character after the first n, or None
nth(str, n) ==
    IF n < Len(str) THEN [some |-> TRUE, val |-> str[n + 1]]
    ELSE [some |-> FALSE]

\* no check of the first characters
leading_zero_unchecked(number_str) == "pass"

\* a check that looks at the second character of every string that is not
\* empty
leading_zero_unguarded(number_str) ==
    IF ~(Len(number_str) >= 1) THEN "pass"
    ELSE IF ~nth(number_str, 0).some THEN "panic"
    ELSE IF nth(number_str, 0).val # "0" THEN "pass"
    ELSE IF ~nth(number_str, 1).some THEN "panic"
    ELSE IF nth(number_str, 1).val # "." THEN "error"
    ELSE "pass"

\* the check of number() on the first two characters: "error" for 0xx,
\* "panic" when an unwrap() meets None, "pass" otherwise
leading_zero(number_str) ==
    IF ~(Len(number_str) > 1) THEN "pass"
    ELSE IF ~nth(number_str, 0).some THEN "panic"
    ELSE IF nth(number_str, 0).val # "0" THEN "pass"
    ELSE IF ~nth(number_str, 1).some THEN "panic"
    ELSE IF nth(number_str, 1).val # "." THEN "error"
    ELSE "pass"

\* <number> :== ('+'|'-')[0-9]
number(s, pos) ==
    LET w == read_whitespace_tokens(s, pos)
        p == SkipNumber(s, w.pos, w.pos)
        number_str == SubSeq(s, w.pos, p - 1)
    IN IF leading_zero(number_str) = "panic"
       THEN LexPanic(<<"called Option::unwrap() on a None value">>)
       ELSE IF leading_zero(number_str) = "error"
       THEN LexErr(<<"error: invalid numeric string">>)
       ELSE LET r == parse_f64(number_str)
            IN IF r.ok THEN LexOk(Append(w.tokens, NumberTok(r.val)), p)
               ELSE LexErr(<<"error: ">> \o r.msg)

\* the operator ? on a Result: an error is returned as it is, a success is
\* handed on
Try(r, F(_)) == IF r.ok THEN F(r) ELSE r

\* tokens, then the tokens of the result r of a later call, at r's position
Extend(tokens, r) == LexOk(tokens \o r.tokens, r.pos)

RECURSIVE expr(_, _), expr_loop(_, _), term(_, _), term_loop(_, _),
          factor(_, _), function(_, _), function_loop(_, _)

\* the loop of expr(): sofar is what expr() has read so far
expr_loop(s, sofar) ==
    Try(Extend(sofar.tokens, read_whitespace_tokens(s, sofar.pos)),
        LAMBDA w :
            IF w.pos > Len(s) THEN w
            ELSE IF s[w.pos] \in {">", "<", "=", "!"} THEN
                Try(read_comparison_operator(s, w.pos + 1, s[w.pos]),
                    LAMBDA o :
                        Try(term(s, o.pos),
                            LAMBDA t :
                                expr_loop(s, Extend(w.tokens \o o.tokens, t))))
            ELSE IF s[w.pos] \in {"+", "-"} THEN
                Try(operator_to_token(<<s[w.pos]>>),
                    LAMBDA o :
                        Try(term(s, w.pos + 1),
                            LAMBDA t :
                                expr_loop(s, Extend(Append(w.tokens, o.token),
                                                    t))))
            ELSE w)

\* <expr> ::= <term> [ ('+'|'-'|comparison) <term> ]*
expr(s, pos) == Try(term(s, pos), LAMBDA t : expr_loop(s, t))

\* the loop of term(): sofar is what term() has read so far
term_loop(s, sofar) ==
    Try(Extend(sofar.tokens, read_whitespace_tokens(s, sofar.pos)),
        LAMBDA w :
            IF w.pos > Len(s) THEN w
            ELSE IF s[w.pos] \in {"*", "/", "%"} THEN
                Try(operator_to_token(<<s[w.pos]>>),
                    LAMBDA o :
                        Try(factor(s, w.pos + 1),
                            LAMBDA f :
                                term_loop(s, Extend(Append(w.tokens, o.token),
                                                    f))))
            ELSE w)

\* <term> ::= <factor> [ ('*'|'/'|'%') <factor> ]*
term(s, pos) == Try(factor(s, pos), LAMBDA f : term_loop(s, f))

\* the end of the '(' <expr> ')' arm of factor(): sofar is what has been read
\* up to the whitespace after <expr>
close_parenthesis(s, sofar) ==
    IF sofar.pos > Len(s) THEN LexErr(<<"error: unexpected end of line">>)
    ELSE IF s[sofar.pos] = ")"
    THEN LexOk(Append(sofar.tokens, RightParenthesis), sofar.pos + 1)
    ELSE LexErr(<<"error: unexpected chars, ", s[sofar.pos]>>)

\* <factor> ::= <number> | '(' <expr> ')' | <function> | <variable>
factor(s, pos) ==
    Try(read_whitespace_tokens(s, pos),
        LAMBDA w :
            IF w.pos > Len(s) THEN LexErr(<<"error: unexpected end of line">>)
            ELSE IF s[w.pos] = "(" THEN
                Try(expr(s, w.pos + 1),
                    LAMBDA e :
                        close_parenthesis(
                            s,
                            Extend(Append(w.tokens, LeftParenthesis)
                                       \o e.tokens,
                                   read_whitespace_tokens(s, e.pos))))
            ELSE IF is_numeric(s[w.pos]) \/ s[w.pos] \in {"+", "-"}
            THEN Try(number(s, w.pos), LAMBDA n : Extend(w.tokens, n))
            ELSE IF is_uppercase(s[w.pos])
            THEN Try(function(s, w.pos), LAMBDA f : Extend(w.tokens, f))
            ELSE IF is_lowercase(s[w.pos])
            THEN Try(variable(s, w.pos), LAMBDA v : Extend(w.tokens, v))
            ELSE LexErr(<<"error: unexpected char, ", s[w.pos]>>))

\* the while-let loop of function(): it ends at ')' and also at the end of
\* the input; sofar is what function() has read so far
function_loop(s, sofar) ==
    IF sofar.pos > Len(s) THEN sofar
    ELSE IF s[sofar.pos] = "," THEN
        Try(expr(s, sofar.pos + 1),
            LAMBDA e :
                function_loop(s, Extend(Append(sofar.tokens, Comma)
                                            \o e.tokens,
                                        read_whitespace_tokens(s, e.pos))))
    ELSE IF s[sofar.pos] = ")"
    THEN LexOk(Append(sofar.tokens, RightParenthesis), sofar.pos + 1)
    ELSE LexErr(<<"error: unexpected char after first argument, ",
                  s[sofar.pos]>>)

\* <function> :== <property> '(' <expr>, [',' <expr> ]* ')'
function(s, pos) ==
    Try(property(s, pos),
        LAMBDA p :
            IF p.pos > Len(s) THEN LexErr(<<"error: unexpected end of line">>)
            ELSE IF s[p.pos] = "(" THEN
                Try(expr(s, p.pos + 1),
                    LAMBDA e :
                        function_loop(
                            s,
                            Extend(Append(p.tokens, LeftParenthesis)
                                       \o e.tokens,
                                   read_whitespace_tokens(s, e.pos))))
            ELSE LexErr(<<"error: unexpected char after property, ",
                          s[p.pos]>>))

\* an end of tokenize() that does not look at what is left of the input
tokenize_end_unchecked(s, e) ==
    LexOk(SelectSeq(e.tokens, LAMBDA t : t # WhiteSpace), e.pos)

\* the end of tokenize(): e is what expr() has read
tokenize_end(s, e) ==
    IF e.pos <= Len(s) THEN LexErr(<<"error: syntax error">>)
    ELSE LexOk(SelectSeq(e.tokens, LAMBDA t : t # WhiteSpace), e.pos)

\* Lexer::new(input).tokenize(): the tokens of the whole input without the
\* WhiteSpace tokens
tokenize(s) == Try(expr(s, 1), LAMBDA e : tokenize_end(s, e))

\* ------------------------------------------------------------------ parser.rs

\* enum Value
Val(t) == [type |-> t]
NumberVal(v) == [type |-> "Number", val |-> v]
FunctionVal(name) == [type |-> "Function", name |-> name]
VariableVal(name) == [type |-> "Variable", name |-> name]

\* Result<_, ParserError>
ParseErr(msg) == [ok |-> FALSE, msg |-> msg]

\* struct Parser, with the locals of parse_expr: index is the position of
\* the next token, one-based, and the top of stack is its last element
PState(tokens, index, values, stack) ==
    [ok |-> TRUE, tokens |-> tokens, index |-> index, values |-> values,
     stack |-> stack]

\* Parser::new
NewParser(tokens) == PState(tokens, 1, <<>>, <<>>)

\* Parser::peek: the token at the cursor, or None
peek(p) == IF p.index <= Len(p.tokens) THEN <<p.tokens[p.index]>> ELSE <<>>

Top(stack) == stack[Len(stack)]
Pop(stack) == SubSeq(stack, 1, Len(stack) - 1)

\* a conversion that does not look at is_function
token_into_value_as_variable(token, is_function) ==
    IF token.type \in Operators THEN [ok |-> TRUE, value |-> Val(token.type)]
    ELSE IF token.type = "Property"
    THEN [ok |-> TRUE, value |-> VariableVal(token.name)]
    ELSE ParseErr(<<"error: unexpected token, ", token>>)

token_into_value(token, is_function) ==
    IF token.type \in Operators THEN [ok |-> TRUE, value |-> Val(token.type)]
    ELSE IF token.type = "Property"
    THEN [ok |-> TRUE,
          value |-> IF is_function THEN FunctionVal(token.name)
                    ELSE VariableVal(token.name)]
    ELSE ParseErr(<<"error: unexpected token, ", token>>)

\* the loop run for an operator token: the operators of the set tops are
\* popped from the stack to the output, then the token is pushed and consumed
RECURSIVE operator_loop(_, _, _)
operator_loop(p, token, tops) ==
    IF p.stack # <<>> /\ Top(p.stack).type \in tops
    THEN LET v == token_into_value(Top(p.stack), TRUE)
         IN IF ~v.ok THEN v
            ELSE operator_loop(PState(p.tokens, p.index,
                                      Append(p.values, v.value), Pop(p.stack)),
                               token, tops)
    ELSE PState(p.tokens, p.index + 1, p.values, Append(p.stack, token))

\* the loop run for ')': operators are popped to the output until '(' is
\* popped; a function name then on top is popped to the output too
RECURSIVE right_parenthesis_loop(_)
right_parenthesis_loop(p) ==
    IF p.stack = <<>>
    THEN ParseErr(<<"error: parenthesis is not matchedd">>)
    ELSE LET t == Top(p.stack)
             rest == Pop(p.stack)
         IN IF t.type \in Operators THEN
                LET v == token_into_value(t, TRUE)
                IN IF ~v.ok THEN v
                   ELSE right_parenthesis_loop(
                            PState(p.tokens, p.index,
                                   Append(p.values, v.value), rest))
            ELSE IF t = LeftParenthesis THEN
                IF rest # <<>> /\ Top(rest).type = "Property"
                THEN LET v == token_into_value(Top(rest), TRUE)
                     IN IF ~v.ok THEN v
                        ELSE PState(p.tokens, p.index + 1,
                                    Append(p.values, v.value), Pop(rest))
                ELSE PState(p.tokens, p.index + 1, p.values, rest)
            ELSE ParseErr(<<"error: unexpected property, token: ", t>>)

\* the loop run for ',': operators are popped to the output until '(' is on
\* top; the '(' stays
RECURSIVE comma_loop(_)
comma_loop(p) ==
    IF p.stack = <<>>
    THEN ParseErr(<<"error: parenthesis is not matched">>)
    ELSE LET t == Top(p.stack)
         IN IF t.type \in Operators THEN
                LET v == token_into_value(t, TRUE)
                IN IF ~v.ok THEN v
                   ELSE comma_loop(PState(p.tokens, p.index,
                                          Append(p.values, v.value),
                                          Pop(p.stack)))
            ELSE IF t = LeftParenthesis
            THEN PState(p.tokens, p.index + 1, p.values, p.stack)
            ELSE ParseErr(<<"error: unexpected property, token: ", t>>)

\* one iteration of the main loop of parse_expr, on the token at the cursor
parse_token(p) ==
    LET token == p.tokens[p.index]
    IN IF token = WhiteSpace
       THEN PState(p.tokens, p.index + 1, p.values, p.stack)
       ELSE IF token.type = "Number"
       THEN PState(p.tokens, p.index + 1,
                   Append(p.values, NumberVal(token.val)), p.stack)
       ELSE IF token.type \in Tier1 THEN operator_loop(p, token, Tier1Pops)
       ELSE IF token.type \in Tier2 THEN operator_loop(p, token, Tier2Pops)
       ELSE IF token = LeftParenthesis
       THEN PState(p.tokens, p.index + 1, p.values, Append(p.stack, token))
       ELSE IF token = RightParenthesis THEN right_parenthesis_loop(p)
       ELSE IF token.type = "Property" THEN
           LET q == PState(p.tokens, p.index + 1, p.values, p.stack)
           IN IF peek(q) = <<LeftParenthesis>>
              THEN PState(q.tokens, q.index, q.values, Append(q.stack, token))
              ELSE LET v == token_into_value(token, FALSE)
                   IN IF ~v.ok THEN v
                      ELSE PState(q.tokens, q.index,
                                  Append(q.values, v.value), q.stack)
       ELSE comma_loop(p)

\* a main loop that also ends at a ')' met with an empty stack
RECURSIVE main_loop_to_close(_)
main_loop_to_close(p) ==
    IF peek(p) = <<>> \/ (peek(p) = <<RightParenthesis>> /\ p.stack = <<>>)
    THEN p
    ELSE LET q == parse_token(p)
         IN IF ~q.ok THEN q ELSE main_loop_to_close(q)

\* the main loop of parse_expr: it ends when the cursor is past the last
\* token, or at the first error
RECURSIVE main_loop(_)
main_loop(p) ==
    IF peek(p) = <<>> THEN p
    ELSE LET q == parse_token(p) IN IF ~q.ok THEN q ELSE main_loop(q)

\* a final loop that drops what is not an operator
RECURSIVE drain_loop_lenient(_)
drain_loop_lenient(p) ==
    IF p.stack = <<>> THEN p
    ELSE LET t == Top(p.stack)
         IN IF t.type \in Operators THEN
                LET v == token_into_value(t, TRUE)
                IN IF ~v.ok THEN v
                   ELSE drain_loop_lenient(PState(p.tokens, p.index,
                                                  Append(p.values, v.value),
                                                  Pop(p.stack)))
            ELSE drain_loop_lenient(PState(p.tokens, p.index, p.values,
                                           Pop(p.stack)))

\* the final loop of parse_expr: the stack is emptied to the output; anything
\* but an operator on it is an error
RECURSIVE drain_loop(_)
drain_loop(p) ==
    IF p.stack = <<>> THEN p
    ELSE LET t == Top(p.stack)
         IN IF t.type \in Operators THEN
                LET v == token_into_value(t, TRUE)
                IN IF ~v.ok THEN v
                   ELSE drain_loop(PState(p.tokens, p.index,
                                          Append(p.values, v.value),
                                          Pop(p.stack)))
            ELSE ParseErr(<<"error: unexpected token: ", t>>)

\* Parser::parse_expr, from the parser state p
parse_expr(p) ==
    LET q == main_loop(p) IN IF ~q.ok THEN q ELSE drain_loop(q)

\* a final check that also refuses an output that begins with an operator
parse_operand_first(p) ==
    LET q == parse_expr(p)
    IN IF ~q.ok THEN q
       ELSE IF q.values = <<>> \/ peek(q) # <<>>
               \/ q.values[1].type \in Operators
       THEN ParseErr(<<"error: syntax error">>)
       ELSE q

\* Parser::parse, from the parser state p: the parser state after it, with
\* the postfix sequence in values, or an error
parse(p) ==
    LET q == parse_expr(p)
    IN IF ~q.ok THEN q
       ELSE IF q.values = <<>> \/ peek(q) # <<>>
       THEN ParseErr(<<"error: syntax error">>)
       ELSE q

\* ------------------------------------------------------------------ processor.rs

\* Function::new and Variable::new; a handler is named, see Handler
Function(name, args_count, handler) ==
    [name |-> name, args_count |-> args_count, handler |-> handler]
Variable(name, value) == [name |-> name, value |-> value]

\* the number of leading arguments a handler indexes
HandlerReads(h) ==
    CASE h \in {"add", "sub", "mul", "div", "mod"} -> 2
      [] h = "if" -> 3
      [] h = "minus" -> 1
      [] h = "second" -> 2

\* (self.handler)(args), for args long enough; args[i] of the source is
\* args[i + 1] here
Handler(h, args) ==
    CASE h = "add" -> FAdd(args[1], args[2])
      [] h = "sub" -> FSub(args[1], args[2])
      [] h = "mul" -> FMul(args[1], args[2])
      [] h = "div" -> FDiv(args[1], args[2])
      [] h = "mod" -> FRem(args[1], args[2])
      [] h = "if" -> IF FEq(args[1], PosZero) THEN args[3] ELSE args[2]
      [] h = "minus" -> FMul(<<-1, 1>>, args[1])
      [] h = "second" -> args[2]

\* Result<f64, ProcessorError>; a panic is an error with panic set
ProcOk(v) == [ok |-> TRUE, val |-> v]
ProcErr(msg) == [ok |-> FALSE, panic |-> FALSE, msg |-> msg]
Panic(msg) == [ok |-> FALSE, panic |-> TRUE, msg |-> msg]

\* Function::calc; a handler that indexes past the end of args panics
calc(func, args) ==
    IF Len(args) # func.args_count
    THEN ProcErr(<<"error: args count of ", func.name, " expects ",
                   func.args_count, ", but provide ", Len(args)>>)
    ELSE IF HandlerReads(func.handler) > Len(args)
    THEN Panic(<<"index out of bounds">>)
    ELSE ProcOk(Handler(func.handler, args))

calc_binary_operator(v1, v2, operator) ==
    CASE operator.type = "Plus" -> ProcOk(FAdd(v1, v2))
      [] operator.type = "Minus" -> ProcOk(FSub(v1, v2))
      [] operator.type = "Asterisk" -> ProcOk(FMul(v1, v2))
      [] operator.type = "Slash" -> ProcOk(FDiv(v1, v2))
      [] operator.type = "Percent" -> ProcOk(FRem(v1, v2))
      [] operator.type = "Equal" -> ProcOk(FromBool(FEq(v1, v2)))
      [] operator.type = "NotEqual" -> ProcOk(FromBool(~FEq(v1, v2)))
      [] operator.type = "GreaterThan" -> ProcOk(FromBool(FLt(v2, v1)))
      [] operator.type = "GreaterThanOrEqual" ->
            ProcOk(FromBool(FLt(v2, v1) \/ FEq(v1, v2)))
      [] operator.type = "LessThan" -> ProcOk(FromBool(FLt(v1, v2)))
      [] operator.type = "LessThanOrEqual" ->
            ProcOk(FromBool(FLt(v1, v2) \/ FEq(v1, v2)))
      [] OTHER -> ProcErr(<<"error: unexpected token, ", operator>>)

\* struct Processor with the local stack of the running execute(): index is
\* the position of the next item, one-based; the top of stack is its last
\* element; calls lists the handler invocations made so far, each with the
\* position of the function in the table and the arguments it received
Processor(values, functions, variables, index, stack, calls) ==
    [ok |-> TRUE, values |-> values, functions |-> functions,
     variables |-> variables, index |-> index, stack |-> stack,
     calls |-> calls]

\* Processor::new, and the stack at the start of execute()
NewProcessor(values, functions, variables) ==
    Processor(values, functions, variables, 1, <<>>, <<>>)

\* an error return of execute(): the cursor stays where it was
Failed(p, err) ==
    [ok |-> FALSE, panic |-> err.panic, msg |-> err.msg, values |-> p.values,
     functions |-> p.functions, variables |-> p.variables,
     index |-> p.index, stack |-> p.stack, calls |-> p.calls]

\* iter().find(): the position of the first entry of table with this name,
\* or 0 for None
\* a lookup that falls back on the first entry
FindOrFirst(table, name) ==
    LET hits == {i \in 1..Len(table) : table[i].name = name}
    IN IF hits = {} THEN 1 ELSE CHOOSE i \in hits : \A j \in hits : i <= j

\* a lookup that takes the last entry of the name
FindLast(table, name) ==
    LET hits == {i \in 1..Len(table) : table[i].name = name}
    IN IF hits = {} THEN 0 ELSE CHOOSE i \in hits : \A j \in hits : i >= j

Find(table, name) ==
    LET hits == {i \in 1..Len(table) : table[i].name = name}
    IN IF hits = {} THEN 0 ELSE CHOOSE i \in hits : \A j \in hits : i <= j

\* the arguments left in the order they were popped
NoReverse(s) == s

Reverse(s) == [i \in 1..Len(s) |-> s[Len(s) + 1 - i]]

\* the operands named in the order they lie on the stack
pop_operands_in_order(stack) ==
    [v1 |-> stack[Len(stack) - 1], v2 |-> stack[Len(stack)]]

\* the two pops of the operator arm, for a stack of two values or more: v1 is
\* popped first and v2 second
pop_operands(stack) ==
    [v1 |-> stack[Len(stack)], v2 |-> stack[Len(stack) - 1]]

\* a loop over 1..func.args_count
pop_count_exclusive(func) == func.args_count - 1

\* a loop over 0..=args_count
pop_count_inclusive(func) == func.args_count + 1

\* the number of values the loop over 0..func.args_count pops
pop_count(func) == func.args_count

\* one iteration of the loop of execute(), on the item at the cursor, with
\* the self.next() that ends it
execute_item(p) ==
    LET vv == p.values[p.index]
        n == Len(p.stack)
    IN IF vv.type = "Number"
       THEN Processor(p.values, p.functions, p.variables, p.index + 1,
                      Append(p.stack, vv.val), p.calls)
       ELSE IF vv.type = "Function" THEN
           LET i == Find(p.functions, vv.name)
           IN IF i = 0
              THEN Failed(p, ProcErr(<<"error: unknown function, ", vv.name>>))
              ELSE LET func == p.functions[i]
                   IN IF n < pop_count(func)
                      THEN Failed(p, ProcErr(<<"error: syntax error">>))
                      ELSE LET popped == [k \in 1..pop_count(func) |->
                                              p.stack[n + 1 - k]]
                               args == Reverse(popped)
                               result == calc(func, args)
                           IN IF ~result.ok THEN Failed(p, result)
                              ELSE Processor(
                                       p.values, p.functions, p.variables,
                                       p.index + 1,
                                       Append(SubSeq(p.stack, 1,
                                                     n - pop_count(func)),
                                              result.val),
                                       Append(p.calls, <<i, args>>))
       ELSE IF vv.type = "Variable" THEN
           LET i == Find(p.variables, vv.name)
           IN IF i = 0
              THEN Failed(p, ProcErr(<<"error: unknown variable, ", vv.name>>))
              ELSE Processor(p.values, p.functions, p.variables, p.index + 1,
                             Append(p.stack, p.variables[i].value), p.calls)
       ELSE IF n < 2 THEN Failed(p, ProcErr(<<"error: syntax error">>))
       ELSE LET popped == pop_operands(p.stack)
                result == calc_binary_operator(popped.v2, popped.v1, vv)
            IN IF ~result.ok THEN Failed(p, result)
               ELSE Processor(p.values, p.functions, p.variables, p.index + 1,
                              Append(SubSeq(p.stack, 1, n - 2), result.val),
                              p.calls)

\* the loop of execute(): it ends when the cursor is past the last item, or
\* at the first error
RECURSIVE execute_loop(_)
execute_loop(p) ==
    IF p.index > Len(p.values) THEN p
    ELSE LET q == execute_item(p) IN IF ~q.ok THEN q ELSE execute_loop(q)

\* the end of execute(), after the loop: the result of the call
\* a final check that accepts any stack that is not empty
execute_result_top(p) ==
    IF ~p.ok THEN [ok |-> FALSE, panic |-> p.panic, msg |-> p.msg]
    ELSE IF Len(p.stack) >= 1 THEN ProcOk(p.stack[Len(p.stack)])
    ELSE ProcErr(<<"error: syntax error">>)

execute_result(p) ==
    IF ~p.ok THEN [ok |-> FALSE, panic |-> p.panic, msg |-> p.msg]
    ELSE IF Len(p.stack) = 1 THEN ProcOk(p.stack[1])
    ELSE ProcErr(<<"error: syntax error">>)

\* Processor::execute, from the processor p with the stack of a new call
execute(p) == execute_result(execute_loop(p))

\* ------------------------------------------------------------------ lib.rs

reserved_functions ==
    << Function(<<"A", "d", "d">>, 2, "add"),
       Function(<<"S", "u", "b">>, 2, "sub"),
       Function(<<"M", "u", "l">>, 2, "mul"),
       Function(<<"D", "i", "v">>, 2, "div"),
       Function(<<"M", "o", "d">>, 2, "mod"),
       Function(<<"I", "f">>, 3, "if") >>

\* the caller's functions placed before the reserved ones
caller_functions_first(fns) == fns \o reserved_functions

\* the table handed to the evaluator
all_functions(fns) == reserved_functions \o fns

\* map_err(|e| FormulaError { msg: e.msg, error_type }); a panic is not a
\* FormulaError and passes unchanged
FormulaError(e, error_type) ==
    IF "panic" \in DOMAIN e /\ e.panic THEN e
    ELSE [ok |-> FALSE, panic |-> FALSE, msg |-> e.msg,
          error_type |-> error_type]

\* ------------------------------------------------------------------ state

VARIABLES
    input,      \* parse_formula's input, a sequence of characters
    functions,  \* the caller's functions
    variables,  \* the caller's variables
    pc,         \* the stage parse_formula, or execute, is at
    tokens,     \* the result of the tokenizer stage
    values,     \* the result of the parser stage
    proc,       \* the Processor
    result,     \* the result of parse_formula, or of execute
    ran,        \* the stages that have run
    source      \* what the input text was written from

vars ==
    <<input, functions, variables, pc, tokens, values, proc, result, ran,
      source>>

\* a result that is not there yet
Pending == [ok |-> FALSE, panic |-> FALSE, msg |-> <<>>, error_type |-> "None"]

\* the state in which parse_formula(text, fns, vs) starts; src is what text
\* was written from
Call(text, fns, vs, src) ==
    /\ source = src
    /\ input = text
    /\ functions = fns
    /\ variables = vs
    /\ pc = "tokenize"
    /\ tokens = Pending
    /\ values = Pending
    /\ proc = NewProcessor(<<>>, all_functions(fns), vs)
    /\ result = Pending
    /\ ran = {}

\* Lexer::new(input).tokenize().map_err(..)
Tokenize ==
    /\ pc = "tokenize"
    /\ LET t == tokenize(input)
       IN tokens' = IF t.ok THEN [ok |-> TRUE, tokens |-> t.tokens]
                    ELSE FormulaError(t, "Lexer")
    /\ ran' = ran \cup {"Lexer"}
    /\ pc' = "parse"
    /\ UNCHANGED <<input, functions, variables, values, proc, result, source>>

\* a map_err placed after the and_then, which tags the error of the stage
\* before as well
ParseRetagging ==
    /\ pc = "parse"
    /\ IF tokens.ok
       THEN /\ LET q == parse(NewParser(tokens.tokens))
               IN values' = IF q.ok THEN [ok |-> TRUE, values |-> q.values]
                            ELSE FormulaError(q, "Parser")
            /\ ran' = ran \cup {"Parser"}
       ELSE /\ values' = FormulaError(tokens, "Parser")
            /\ ran' = ran
    /\ pc' = "execute"
    /\ UNCHANGED <<input, functions, variables, tokens, proc, result, source>>

\* .and_then(|t| Parser::new(t).parse().map_err(..)): an error of the stage
\* before passes unchanged and the parser does not run
Parse ==
    /\ pc = "parse"
    /\ IF tokens.ok
       THEN /\ LET q == parse(NewParser(tokens.tokens))
               IN values' = IF q.ok THEN [ok |-> TRUE, values |-> q.values]
                            ELSE FormulaError(q, "Parser")
            /\ ran' = ran \cup {"Parser"}
       ELSE /\ values' = tokens
            /\ ran' = ran
    /\ pc' = "execute"
    /\ UNCHANGED <<input, functions, variables, tokens, proc, result, source>>

\* an evaluator stage that goes on from the index of the Processor of the
\* call before
ExecuteReusing ==
    /\ pc = "execute"
    /\ IF values.ok
       THEN /\ proc' = execute_loop(Processor(values.values,
                                              all_functions(functions),
                                              variables, proc.index, <<>>,
                                              <<>>))
            /\ LET r == execute_result(proc')
               IN result' = IF r.ok THEN r ELSE FormulaError(r, "Processor")
            /\ ran' = ran \cup {"Processor"}
       ELSE /\ result' = values
            /\ proc' = proc
            /\ ran' = ran
    /\ pc' = "done"
    /\ UNCHANGED <<input, functions, variables, tokens, values, source>>

\* .and_then(|v| Processor::new(v, all_functions, variables).execute()
\* .map_err(..))
Execute ==
    /\ pc = "execute"
    /\ IF values.ok
       THEN /\ proc' = execute_loop(NewProcessor(values.values,
                                                 all_functions(functions),
                                                 variables))
            /\ LET r == execute_result(proc')
               IN result' = IF r.ok THEN r ELSE FormulaError(r, "Processor")
            /\ ran' = ran \cup {"Processor"}
       ELSE /\ result' = values
            /\ proc' = proc
            /\ ran' = ran
    /\ pc' = "done"
    /\ UNCHANGED <<input, functions, variables, tokens, values, source>>

\* parse_formula
Next == Tokenize \/ Parse \/ Execute

\* the whole of parse_formula as a function of its arguments
parse_formula(text, fns, vs) ==
    LET t == tokenize(text)
    IN IF ~t.ok THEN FormulaError(t, "Lexer")
       ELSE LET q == parse(NewParser(t.tokens))
            IN IF ~q.ok THEN FormulaError(q, "Parser")
               ELSE LET r == execute(NewProcessor(q.values,
                                                  all_functions(fns), vs))
                    IN IF r.ok THEN r ELSE FormulaError(r, "Processor")

\* ------------------------------------------------------------------ inputs

\* the concatenation of the texts of a sequence
RECURSIVE Concat(_)
Concat(ss) == IF ss = <<>> THEN <<>> ELSE Head(ss) \o Concat(Tail(ss))

\* the sequences over S of length at most n
SeqsUpTo(S, n) == UNION {[1..k -> S] : k \in 0..n}

\* the longest input text, in lexemes
MaxLexemes == 4

\* the pieces the input texts are made of
Lexemes ==
    { <<"1">>, <<"x">>, <<"y">>, <<"A", "d", "d">>, <<"G">>,
      <<"(">>, <<")">>, <<",">>, <<"+">> }

\* the caller's tables: x is defined, y and G are not
Init ==
    \E ls \in SeqsUpTo(Lexemes, MaxLexemes) :
        Call(Concat(ls), <<>>, <<Variable(<<"x">>, <<2, 1>>)>>, ls)

Spec == Init /\ [][Next]_vars

\* ------------------------------------------------------------------ expressions

\* An infix expression: operands[k] is a numeric literal, ops[k] stands
\* between operands k and k + 1, and every <<i, j>> of parens is a pair of
\* parentheses around operands i..j.  Two pairs are nested or apart.
Literal(text, val) == [text |-> text, val |-> val]
Op(text, type) == [text |-> text, type |-> type]

Literals == {Literal(<<"3">>, <<3, 1>>), Literal(<<"-", "2">>, <<-2, 1>>)}

ArithmeticOps ==
    {Op(<<"+">>, "Plus"), Op(<<"-">>, "Minus"), Op(<<"*">>, "Asterisk"),
     Op(<<"/">>, "Slash"), Op(<<"%">>, "Percent")}

ComparisonOps ==
    {Op(<<"=", "=">>, "Equal"), Op(<<"!", "=">>, "NotEqual"),
     Op(<<"<">>, "LessThan"), Op(<<">">>, "GreaterThan"),
     Op(<<"<", "=">>, "LessThanOrEqual"),
     Op(<<">", "=">>, "GreaterThanOrEqual")}

\* the most operands of an expression, and the most pairs of parentheses
MaxOperands == 3
MaxParens == 1

Ranges(n) == {r \in (1..n) \X (1..n) : r[1] <= r[2]}
Apart(r, q) == r[2] < q[1] \/ q[2] < r[1]
Inside(r, q) == q[1] <= r[1] /\ r[2] <= q[2]
Laminar(P) ==
    \A r \in P : \A q \in P : r = q \/ Apart(r, q) \/ Inside(r, q) \/ Inside(q, r)
ParenSets(n, most) ==
    {P \in SUBSET Ranges(n) : Cardinality(P) <= most /\ Laminar(P)}

\* c, k times
Repeat(c, k) == [i \in 1..k |-> c]

\* the text of operands from..n of e with their parentheses and operators;
\* sep is written on both sides of every operator
RECURSIVE Render(_, _, _)
Render(e, from, sep) ==
    LET n == Len(e.operands)
        opens == Cardinality({r \in e.parens : r[1] = from})
        closes == Cardinality({r \in e.parens : r[2] = from})
        operand == Repeat("(", opens) \o e.operands[from].text
                       \o Repeat(")", closes)
    IN IF from = n THEN operand
       ELSE operand \o sep \o e.ops[from].text \o sep \o Render(e, from + 1, sep)

\* the value of a op b as the language defines it
Apply(type, a, b) ==
    CASE type = "Plus" -> FAdd(a, b)
      [] type = "Minus" -> FSub(a, b)
      [] type = "Asterisk" -> FMul(a, b)
      [] type = "Slash" -> FDiv(a, b)
      [] type = "Percent" -> FRem(a, b)
      [] type = "Equal" -> IF FEq(a, b) THEN One ELSE PosZero
      [] type = "NotEqual" -> IF FEq(a, b) THEN PosZero ELSE One
      [] type = "LessThan" -> IF FLt(a, b) THEN One ELSE PosZero
      [] type = "GreaterThan" -> IF FLt(b, a) THEN One ELSE PosZero
      [] type = "LessThanOrEqual" ->
            IF FLt(a, b) \/ FEq(a, b) THEN One ELSE PosZero
      [] type = "GreaterThanOrEqual" ->
            IF FLt(b, a) \/ FEq(a, b) THEN One ELSE PosZero

\* the operators that bind tighter
Tight == {"Asterisk", "Slash"}

Max(S) == CHOOSE x \in S : \A y \in S : y <= x

\* The value of operands lo..hi of e, where P holds the pairs of parentheses
\* inside lo..hi.  It is the grammar
\*     expr ::= expr loose term | term      term ::= term tight factor | factor
\*     factor ::= literal | '(' expr ')'
\* read directly: the last loose operator outside all parentheses is applied
\* last; without one, the last tight operator is.
RECURSIVE Value(_, _, _, _)
Value(e, lo, hi, P) ==
    LET outside == {k \in lo..(hi - 1) :
                        \A r \in P : ~(r[1] <= k /\ k < r[2])}
        loose == {k \in outside : e.ops[k].type \notin Tight}
    IN IF <<lo, hi>> \in P THEN Value(e, lo, hi, P \ {<<lo, hi>>})
       ELSE IF lo = hi THEN e.operands[lo].val
       ELSE LET k == IF loose # {} THEN Max(loose) ELSE Max(outside)
            IN Apply(e.ops[k].type,
                     Value(e, lo, k, {r \in P : r[2] <= k}),
                     Value(e, k + 1, hi, {r \in P : r[1] > k}))

ValueOf(e) == Value(e, 1, Len(e.operands), e.parens)

\* parse_formula is called without tables on the text of an expression over
\* the operators ops, with at most mostParens pairs of parentheses, written
\* with one of seps around every operator
InitExpression(ops, mostParens, seps) ==
    \E n \in 1..MaxOperands :
        \E P \in ParenSets(n, mostParens) :
            \E os \in [1..n -> Literals] :
                \E bs \in [1..(n - 1) -> ops] :
                    \E sep \in seps :
                        LET e == [operands |-> os, ops |-> bs, parens |-> P]
                        IN Call(Render(e, 1, sep), <<>>, <<>>, e)

InitArith == InitExpression(ArithmeticOps, MaxParens, {<<>>, <<" ">>})

SpecArith == InitArith /\ [][Next]_vars

InitCompare == InitExpression(ArithmeticOps \cup ComparisonOps, 0, {<<>>})

SpecCompare == InitCompare /\ [][Next]_vars

\* ------------------------------------------------------------------ calls

\* A call: name(args), where args[k] is a numeric literal, except that for
\* nest > 0 the argument at nest is the call inner.name(inner.args).
CallLiterals == {Literal(<<"0">>, PosZero), Literal(<<"3">>, <<3, 1>>)}

\* the names called: two reserved functions and one of the caller's
CallNames == {<<"S", "u", "b">>, <<"I", "f">>, <<"M", "i", "n", "u", "s">>}

\* the most arguments written in a call
MaxArgs == 3

\* the caller's tables: Minus alone, and Minus after a function with the name
\* of the reserved Sub
FunctionTables ==
    { <<Function(<<"M", "i", "n", "u", "s">>, 1, "minus")>>,
      <<Function(<<"S", "u", "b">>, 2, "second"),
        Function(<<"M", "i", "n", "u", "s">>, 1, "minus")>> }

\* the text of the arguments from..n of a call
RECURSIVE RenderArgs(_, _, _)
RenderArgs(texts, from, sep) ==
    IF from = Len(texts) THEN texts[from]
    ELSE texts[from] \o <<",">> \o sep \o RenderArgs(texts, from + 1, sep)

RenderCall(name, texts, sep) ==
    name \o <<"(">> \o RenderArgs(texts, 1, sep) \o <<")">>

\* the text of the call c
CallText(c, sep) ==
    RenderCall(c.name,
               [k \in 1..Len(c.args) |->
                   IF k = c.nest
                   THEN RenderCall(c.inner.name,
                                   [j \in 1..Len(c.inner.args) |->
                                       c.inner.args[j].text], sep)
                   ELSE c.args[k].text],
               sep)

NoCall == [name |-> <<>>, args |-> <<>>]

\* parse_formula is called with one of the caller's tables on the text of a
\* call, written with a space after every comma or without
InitCalls ==
    \E fns \in FunctionTables :
        \E name \in CallNames :
            \E n \in 1..MaxArgs :
                \E args \in [1..n -> CallLiterals] :
                    \E nest \in 0..n :
                        \E inner \in
                            IF nest = 0 THEN {NoCall}
                            ELSE {[name |-> nm, args |-> as] :
                                     nm \in CallNames,
                                     as \in UNION {[1..m -> CallLiterals] :
                                                      m \in 1..MaxArgs}} :
                            \E sep \in {<<>>, <<" ">>} :
                                LET c == [name |-> name, args |-> args,
                                          nest |-> nest, inner |-> inner]
                                IN Call(CallText(c, sep), fns, <<>>, c)

SpecCalls == InitCalls /\ [][Next]_vars

\* ------------------------------------------------------------------ execute

\* the longest postfix sequence handed to Processor::new
MaxItems == 4

\* the items the postfix sequences are made of
Items ==
    { NumberVal(<<3, 1>>), NumberVal(<<-2, 1>>), Val("Minus"), Val("Slash"),
      Val("LessThan"), FunctionVal(<<"S", "u", "b">>),
      VariableVal(<<"x">>) }

\* Processor::new(vs, ..) followed by a call of execute(), which runs item
\* by item; the tables are the reserved functions and no variable
InitExecute ==
    \E vs \in SeqsUpTo(Items, MaxItems) :
        /\ proc = NewProcessor(vs, reserved_functions, <<>>)
        /\ pc = "loop"
        /\ result = Pending
        /\ input = <<>>
        /\ functions = <<>>
        /\ variables = <<>>
        /\ tokens = Pending
        /\ values = [ok |-> TRUE, values |-> vs]
        /\ ran = {}
        /\ source = vs

\* one iteration of the loop of execute()
ExecuteItem ==
    /\ pc = "loop"
    /\ proc.ok
    /\ proc.index <= Len(proc.values)
    /\ proc' = execute_item(proc)
    /\ UNCHANGED <<input, functions, variables, pc, tokens, values, result,
                   ran, source>>

\* execute() returns: after the loop, or from the iteration that failed
ExecuteReturn ==
    /\ pc = "loop"
    /\ ~proc.ok \/ proc.index > Len(proc.values)
    /\ result' = execute_result(proc)
    /\ pc' = "returned"
    /\ UNCHANGED <<input, functions, variables, tokens, values, proc, ran,
                   source>>

NextExecute == ExecuteItem \/ ExecuteReturn

SpecExecute == InitExecute /\ [][NextExecute]_vars

\* ------------------------------------------------------------------ characters

\* the longest input text, in characters
MaxChars == 4

\* the characters the input texts are made of
Chars ==
    {"0", "1", ".", "(", ")", ",", " ", "A", "x", "<", ">", "=", "!", "+"}

\* the tokenizer on every text over Chars
InitLex ==
    \E cs \in SeqsUpTo(Chars, MaxChars) : Call(cs, <<>>, <<>>, cs)

NextLex == Tokenize

SpecLex == InitLex /\ [][NextLex]_vars

\* ------------------------------------------------------------------ calls in a row

\* the most calls of parse_formula in a row
MaxCalls == 3

\* the arguments of the calls: four texts, with and without the caller's
\* Minus, and two values of x
RepeatArgs ==
    [text : { <<"x">>, <<"M", "i", "n", "u", "s", "(", "x", ")">>,
              <<"1", "(">>, <<"A", "d", "d", "(", "1">> },
     fns : {<<>>, <<Function(<<"M", "i", "n", "u", "s">>, 1, "minus")>>},
     vs : { <<Variable(<<"x">>, <<2, 1>>)>>, <<Variable(<<"x">>, <<3, 1>>)>> }]

\* source is the sequence of the calls made, the last being the one under way
InitRepeat ==
    \E a \in RepeatArgs :
        Call(a.text, a.fns, a.vs, <<[args |-> a, result |-> Pending]>>)

\* parse_formula has returned and is called again: what the call before left
\* in memory is still there
CallAgain ==
    /\ pc = "done"
    /\ Len(source) < MaxCalls
    /\ \E a \in RepeatArgs :
           /\ input' = a.text
           /\ functions' = a.fns
           /\ variables' = a.vs
           /\ source' = Append([source EXCEPT ![Len(source)].result = result],
                               [args |-> a, result |-> Pending])
    /\ pc' = "tokenize"
    /\ ran' = {}
    /\ UNCHANGED <<tokens, values, proc, result>>

NextRepeat == Tokenize \/ Parse \/ Execute \/ CallAgain

SpecRepeat == InitRepeat /\ [][NextRepeat]_vars

\* ------------------------------------------------------------------ any text

\* the pieces of the texts given to the whole of parse_formula
SafeLexemes ==
    { <<"0">>, <<".">>, <<"-">>, <<"x">>, <<"S", "u", "b">>,
      <<"M", "i", "n", "u", "s">>, <<"(">>, <<")">>, <<",">> }

\* every text of these pieces, with each of the caller's tables; x is defined
InitSafe ==
    \E ls \in SeqsUpTo(SafeLexemes, MaxLexemes) :
        \E fns \in FunctionTables :
            Call(Concat(ls), fns, <<Variable(<<"x">>, <<2, 1>>)>>, ls)

SpecSafe == InitSafe /\ [][Next]_vars

\* ------------------------------------------------------------------ token lists

\* the longest token list
MaxTokens == 5

\* the tokens the lists given to the parser are made of
ParseTokens ==
    { NumberTok(One), Tok("Plus"), LeftParenthesis, RightParenthesis, Comma,
      PropertyTok(<<"F">>), PropertyTok(<<"x">>) }

\* Parser::new(ts).parse() on every list ts of these tokens
InitParse ==
    \E ts \in SeqsUpTo(ParseTokens, MaxTokens) :
        /\ source = ts
        /\ input = <<>>
        /\ functions = <<>>
        /\ variables = <<>>
        /\ pc = "parse"
        /\ tokens = [ok |-> TRUE, tokens |-> ts]
        /\ values = Pending
        /\ proc = NewProcessor(<<>>, all_functions(<<>>), <<>>)
        /\ result = Pending
        /\ ran = {"Lexer"}

NextParse == Parse

SpecParse == InitParse /\ [][NextParse]_vars

\* ------------------------------------------------------------------ token order

\* the tokens of the lists without a delimiter
OrderTokens ==
    { NumberTok(One), PropertyTok(<<"x">>), Tok("Plus"), Tok("Asterisk") }

\* Parser::new(ts).parse() on every list ts of these tokens, then
\* Processor::new(.., reserved functions, x = 2).execute() on its output
InitOrder ==
    \E ts \in SeqsUpTo(OrderTokens, MaxTokens) :
        /\ source = ts
        /\ input = <<>>
        /\ functions = <<>>
        /\ variables = <<Variable(<<"x">>, <<2, 1>>)>>
        /\ pc = "parse"
        /\ tokens = [ok |-> TRUE, tokens |-> ts]
        /\ values = Pending
        /\ proc = NewProcessor(<<>>, all_functions(<<>>), variables)
        /\ result = Pending
        /\ ran = {"Lexer"}

NextOrder == Parse \/ Execute

SpecOrder == InitOrder /\ [][NextOrder]_vars

\* ------------------------------------------------------------------ signs

\* the longest text with signs
MaxSigned == 5

\* the characters of the texts with signs
SignChars == {"1", "+", "-", " ", "(", ")", "x", "*"}

\* Lexer::new(text).tokenize() on every text of these characters
InitSign ==
    \E cs \in SeqsUpTo(SignChars, MaxSigned) : Call(cs, <<>>, <<>>, cs)

NextSign == Tokenize

SpecSign == InitSign /\ [][NextSign]_vars

\* ------------------------------------------------------------------ steps

\* the longest text, in lexemes, that is run step by step
MaxStepLexemes == 4

\* the lexemes of the texts run step by step
StepLexemes ==
    { <<"1">>, <<"x">>, <<"F", "(">>, <<"(">>, <<")">>, <<",">>, <<"+">>,
      <<"*">>, <<" ">> }

\* the Lexer in the middle of tokenize(): at is the place in the code, pos
\* the position of the next character, one-based, out the tokens pushed so
\* far, stack the places the running calls return to, then the place that
\* follows the running read_whitespace_tokens() and start the position where
\* the literal or the name being read began
LexState(at, pos, out, stack, then, start) ==
    [ok |-> TRUE, at |-> at, pos |-> pos, out |-> out, stack |-> stack,
     then |-> then, start |-> start]

\* Lexer::new(input) and the call of tokenize(), which begins with expr()
NewLexer == LexState("expr", 1, <<>>, <<"end">>, "", 1)

\* a call of the function fn that returns to the place ret
CallFn(m, fn, ret) == [m EXCEPT !.at = fn, !.stack = Append(@, ret)]

\* the return of the running function with Ok
Return(m) == [m EXCEPT !.at = Top(m.stack), !.stack = Pop(m.stack)]

\* a call of read_whitespace_tokens() followed by the place then
Whitespace(m, then) == [m EXCEPT !.at = "ws", !.then = then]

\* a peek in the place of self.chars.next(): the tokens are pushed and the
\* position stays
Peeked(m, n, toks) == [m EXCEPT !.out = @ \o toks]

\* self.chars.next() n times, with the tokens toks pushed
Consume(m, n, toks) == [m EXCEPT !.pos = @ + n, !.out = @ \o toks]

\* the places of the tokenizer that are the head of a loop
LexLoops ==
    {"ws", "number_scan", "property_scan", "expr_peek", "term_peek",
     "function_args"}

\* one step of the tokenizer on the text s: a call, a return, or one
\* iteration of a loop
lex_step(s, m) ==
    LET c == IF m.pos <= Len(s) THEN s[m.pos] ELSE ""
    IN CASE m.at = "expr" -> CallFn(m, "term", "expr_loop")
         [] m.at = "term" -> CallFn(m, "factor", "term_loop")
         [] m.at = "factor" -> Whitespace(m, "factor_peek")
         [] m.at = "ws" ->
                IF c # "" /\ is_whitespace(c)
                THEN Consume(m, 1, <<WhiteSpace>>)
                ELSE [m EXCEPT !.at = m.then, !.start = m.pos]
         [] m.at = "factor_peek" ->
                IF c = "" THEN LexErr(<<"error: unexpected end of line">>)
                ELSE IF c = "("
                THEN CallFn(Consume(m, 1, <<LeftParenthesis>>), "expr",
                            "factor_close")
                ELSE IF is_numeric(c) \/ c \in {"+", "-"}
                THEN [m EXCEPT !.at = "number"]
                ELSE IF is_uppercase(c) THEN [m EXCEPT !.at = "function"]
                ELSE IF is_lowercase(c) THEN [m EXCEPT !.at = "variable"]
                ELSE LexErr(<<"error: unexpected char, ", c>>)
         [] m.at = "factor_close" -> Whitespace(m, "factor_close_peek")
         [] m.at = "factor_close_peek" ->
                IF c = "" THEN LexErr(<<"error: unexpected end of line">>)
                ELSE IF c = ")"
                THEN Return(Consume(m, 1, <<RightParenthesis>>))
                ELSE LexErr(<<"error: unexpected chars, ", c>>)
         [] m.at = "number" -> Whitespace(m, "number_scan")
         [] m.at = "number_scan" ->
                IF c # "" /\ (is_numeric(c) \/ c = "."
                              \/ (m.pos = m.start /\ c \in {"+", "-"}))
                THEN Consume(m, 1, <<>>)
                ELSE [m EXCEPT !.at = "number_end"]
         [] m.at = "number_end" ->
                IF leading_zero(SubSeq(s, m.start, m.pos - 1)) = "panic"
                THEN LexPanic(<<"called Option::unwrap() on a None value">>)
                ELSE IF leading_zero(SubSeq(s, m.start, m.pos - 1)) = "error"
                THEN LexErr(<<"error: invalid numeric string">>)
                ELSE IF parse_f64(SubSeq(s, m.start, m.pos - 1)).ok
                THEN Return(Consume(
                         m, 0,
                         <<NumberTok(
                               parse_f64(SubSeq(s, m.start, m.pos - 1)).val)>>))
                ELSE LexErr(<<"error: ">>
                                \o parse_f64(SubSeq(s, m.start,
                                                    m.pos - 1)).msg)
         [] m.at = "variable" -> [m EXCEPT !.at = "property"]
         [] m.at = "function" -> CallFn(m, "property", "function_open")
         [] m.at = "property" -> Whitespace(m, "property_scan")
         [] m.at = "property_scan" ->
                IF c # "" /\ is_alphabetic(c) THEN Consume(m, 1, <<>>)
                ELSE [m EXCEPT !.at = "property_end"]
         [] m.at = "property_end" ->
                IF m.pos = m.start THEN LexErr(<<"error: property is empty">>)
                ELSE Return(Consume(
                         m, 0, <<PropertyTok(SubSeq(s, m.start, m.pos - 1))>>))
         [] m.at = "function_open" ->
                IF c = "" THEN LexErr(<<"error: unexpected end of line">>)
                ELSE IF c = "("
                THEN CallFn(Consume(m, 1, <<LeftParenthesis>>), "expr",
                            "function_after")
                ELSE LexErr(<<"error: unexpected char after property, ", c>>)
         [] m.at = "function_after" -> Whitespace(m, "function_args")
         [] m.at = "function_args" ->
                IF c = "" THEN Return(m)
                ELSE IF c = ","
                THEN CallFn(Consume(m, 1, <<Comma>>), "expr", "function_after")
                ELSE IF c = ")"
                THEN Return(Consume(m, 1, <<RightParenthesis>>))
                ELSE LexErr(<<"error: unexpected char after first argument, ",
                              c>>)
         [] m.at = "expr_loop" -> Whitespace(m, "expr_peek")
         [] m.at = "expr_peek" ->
                IF c \in {">", "<", "=", "!"}
                THEN IF read_comparison_operator(s, m.pos + 1, c).ok
                     THEN CallFn(
                              [m EXCEPT
                                   !.pos = read_comparison_operator(
                                               s, m.pos + 1, c).pos,
                                   !.out = @ \o read_comparison_operator(
                                                    s, m.pos + 1, c).tokens],
                              "term", "expr_loop")
                     ELSE read_comparison_operator(s, m.pos + 1, c)
                ELSE IF c \in {"+", "-"}
                THEN CallFn(Consume(m, 1, <<operator_to_token(<<c>>).token>>),
                            "term", "expr_loop")
                ELSE Return(m)
         [] m.at = "term_loop" -> Whitespace(m, "term_peek")
         [] m.at = "term_peek" ->
                IF c \in {"*", "/", "%"}
                THEN CallFn(Consume(m, 1, <<operator_to_token(<<c>>).token>>),
                            "factor", "term_loop")
                ELSE Return(m)
         [] m.at = "end" ->
                IF tokenize_end(s, LexOk(m.out, m.pos)).ok
                THEN [m EXCEPT
                          !.at = "done",
                          !.out = tokenize_end(s, LexOk(m.out, m.pos)).tokens]
                ELSE tokenize_end(s, LexOk(m.out, m.pos))

\* one iteration of the loop that runs in the main loop of parse_expr, on
\* the token at the cursor
parse_iteration(p) ==
    LET token == p.tokens[p.index]
        pops == IF token.type \in Tier1 THEN Tier1Pops ELSE Tier2Pops
    IN IF token.type \in Tier1 \cup Tier2 THEN
           IF p.stack # <<>> /\ Top(p.stack).type \in pops
           THEN PState(p.tokens, p.index,
                       Append(p.values,
                              token_into_value(Top(p.stack), TRUE).value),
                       Pop(p.stack))
           ELSE PState(p.tokens, p.index + 1, p.values,
                       Append(p.stack, token))
       ELSE IF token = RightParenthesis THEN
           IF p.stack = <<>>
           THEN ParseErr(<<"error: parenthesis is not matchedd">>)
           ELSE IF Top(p.stack).type \in Operators
           THEN PState(p.tokens, p.index,
                       Append(p.values,
                              token_into_value(Top(p.stack), TRUE).value),
                       Pop(p.stack))
           ELSE IF Top(p.stack) = LeftParenthesis THEN
               IF Len(p.stack) > 1 /\ p.stack[Len(p.stack) - 1].type = "Property"
               THEN PState(p.tokens, p.index + 1,
                           Append(p.values,
                                  token_into_value(
                                      p.stack[Len(p.stack) - 1], TRUE).value),
                           Pop(Pop(p.stack)))
               ELSE PState(p.tokens, p.index + 1, p.values, Pop(p.stack))
           ELSE ParseErr(<<"error: unexpected property, token: ",
                           Top(p.stack)>>)
       ELSE IF token = Comma THEN
           IF p.stack = <<>>
           THEN ParseErr(<<"error: parenthesis is not matched">>)
           ELSE IF Top(p.stack).type \in Operators
           THEN PState(p.tokens, p.index,
                       Append(p.values,
                              token_into_value(Top(p.stack), TRUE).value),
                       Pop(p.stack))
           ELSE IF Top(p.stack) = LeftParenthesis
           THEN PState(p.tokens, p.index + 1, p.values, p.stack)
           ELSE ParseErr(<<"error: unexpected property, token: ",
                           Top(p.stack)>>)
       ELSE parse_token(p)

\* one iteration of the final loop of parse_expr, on a stack that is not
\* empty
drain_iteration(p) ==
    IF Top(p.stack).type \in Operators
    THEN PState(p.tokens, p.index,
                Append(p.values, token_into_value(Top(p.stack), TRUE).value),
                Pop(p.stack))
    ELSE ParseErr(<<"error: unexpected token: ", Top(p.stack)>>)

\* parse_formula(text, fns, vs) run step by step on every text of these
\* lexemes
InitSteps ==
    \E ls \in SeqsUpTo(StepLexemes, MaxStepLexemes) :
        /\ source = ls
        /\ input = Concat(ls)
        /\ functions = <<Function(<<"F">>, 1, "minus")>>
        /\ variables = <<Variable(<<"x">>, <<2, 1>>)>>
        /\ pc = "lex"
        /\ tokens = NewLexer
        /\ values = Pending
        /\ proc = NewProcessor(<<>>, all_functions(functions), variables)
        /\ result = Pending
        /\ ran = {}

\* one step of tokenize()
LexStep ==
    /\ pc = "lex"
    /\ tokens.ok
    /\ tokens.at # "done"
    /\ tokens' = lex_step(input, tokens)
    /\ UNCHANGED <<input, functions, variables, pc, values, proc, result, ran,
                   source>>

\* tokenize() returns, and the parser starts on its tokens or parse_formula
\* returns its error
LexReturn ==
    /\ pc = "lex"
    /\ IF tokens.ok THEN tokens.at = "done" ELSE TRUE
    /\ ran' = ran \cup {"Lexer"}
    /\ IF tokens.ok
       THEN /\ tokens' = [ok |-> TRUE, tokens |-> tokens.out]
            /\ values' = NewParser(tokens.out)
            /\ pc' = "parse_loop"
            /\ result' = result
       ELSE /\ tokens' = FormulaError(tokens, "Lexer")
            /\ values' = values
            /\ pc' = "returned"
            /\ result' = FormulaError(tokens, "Lexer")
    /\ UNCHANGED <<input, functions, variables, proc, source>>

\* one iteration of a loop of the main loop of parse_expr
ParseStep ==
    /\ pc = "parse_loop"
    /\ values.ok
    /\ peek(values) # <<>>
    /\ values' = parse_iteration(values)
    /\ UNCHANGED <<input, functions, variables, pc, tokens, proc, result, ran,
                   source>>

\* the main loop of parse_expr breaks at the end of the tokens
ParseBreak ==
    /\ pc = "parse_loop"
    /\ values.ok
    /\ peek(values) = <<>>
    /\ pc' = "drain"
    /\ UNCHANGED <<input, functions, variables, tokens, values, proc, result,
                   ran, source>>

\* one iteration of the final loop of parse_expr
ParseDrain ==
    /\ pc = "drain"
    /\ values.ok
    /\ values.stack # <<>>
    /\ values' = drain_iteration(values)
    /\ UNCHANGED <<input, functions, variables, pc, tokens, proc, result, ran,
                   source>>

\* parse() returns, after its final check or from the iteration that
\* failed, and the evaluator starts on its output or parse_formula returns
\* its error
ParseReturn ==
    /\ pc \in {"parse_loop", "drain"}
    /\ IF values.ok THEN pc = "drain" /\ values.stack = <<>> ELSE TRUE
    /\ ran' = ran \cup {"Parser"}
    /\ IF values.ok /\ values.values # <<>> /\ peek(values) = <<>>
       THEN /\ values' = [ok |-> TRUE, values |-> values.values]
            /\ proc' = NewProcessor(values.values, all_functions(functions),
                                    variables)
            /\ pc' = "loop"
            /\ result' = result
       ELSE /\ values' = FormulaError(
                             IF values.ok
                             THEN ParseErr(<<"error: syntax error">>)
                             ELSE values, "Parser")
            /\ proc' = proc
            /\ pc' = "returned"
            /\ result' = values'
    /\ UNCHANGED <<input, functions, variables, tokens, source>>

NextSteps ==
    \/ LexStep
    \/ LexReturn
    \/ ParseStep
    \/ ParseBreak
    \/ ParseDrain
    \/ ParseReturn
    \/ ExecuteItem
    \/ ExecuteReturn

\* a call runs on until it returns: no step of it waits for anything
SpecSteps == InitSteps /\ [][NextSteps]_vars /\ WF_vars(NextSteps)

\* ------------------------------------------------------------------ execute again

\* the most calls of execute() on one Processor
MaxExecutes == 2

\* Processor::new(vs, ..) followed by calls of execute() on it, each run item
\* by item; returns lists the result and the cursor of the calls that have
\* returned before the running one
InitAgain ==
    \E vs \in SeqsUpTo(Items, MaxItems) :
        /\ proc = NewProcessor(vs, reserved_functions, <<>>)
        /\ pc = "loop"
        /\ result = Pending
        /\ input = <<>>
        /\ functions = <<>>
        /\ variables = <<>>
        /\ tokens = Pending
        /\ values = [ok |-> TRUE, values |-> vs]
        /\ ran = {}
        /\ source = [values |-> vs, returns |-> <<>>]

\* a call of execute() that starts by setting the cursor back to the first
\* item
ExecuteAgainReset ==
    /\ pc = "returned"
    /\ Len(source.returns) + 1 < MaxExecutes
    /\ proc' = NewProcessor(proc.values, proc.functions, proc.variables)
    /\ source' = [source EXCEPT
                      !.returns = Append(@, [result |-> result,
                                             index |-> proc.index])]
    /\ pc' = "loop"
    /\ UNCHANGED <<input, functions, variables, tokens, values, result, ran>>

\* one more call of execute() on the same Processor: a new empty stack, and
\* the fields of the Processor as the call before left them
ExecuteAgain ==
    /\ pc = "returned"
    /\ Len(source.returns) + 1 < MaxExecutes
    /\ proc' = Processor(proc.values, proc.functions, proc.variables,
                         proc.index, <<>>, proc.calls)
    /\ source' = [source EXCEPT
                      !.returns = Append(@, [result |-> result,
                                             index |-> proc.index])]
    /\ pc' = "loop"
    /\ UNCHANGED <<input, functions, variables, tokens, values, result, ran>>

NextAgain == ExecuteItem \/ ExecuteReturn \/ ExecuteAgain

SpecAgain == InitAgain /\ [][NextAgain]_vars

\* ------------------------------------------------------------------ claims

\* C1: an expression of numeric literals, + - * / % and parentheses evaluates
\* to Ok(v), v being its value with * and / binding tighter than + - %,
\* operators of one tier grouping left to right, and parentheses first.
C1_ArithmeticValue ==
    pc = "done" => result.ok /\ result.val = ValueOf(source)

\* an expression with parentheses, a tight operator and then a loose one has
\* been evaluated
C1_Witness ==
    /\ pc = "done"
    /\ result.ok
    /\ source.parens # {}
    /\ Len(source.ops) = 2
    /\ source.ops[1].type = "Asterisk"
    /\ source.ops[2].type = "Percent"

\* the operators of the tier of + - %
Loose ==
    {"Plus", "Minus", "Percent", "Equal", "NotEqual", "LessThan",
     "GreaterThan", "LessThanOrEqual", "GreaterThanOrEqual"}
Comparisons == Loose \ {"Plus", "Minus", "Percent"}

\* C2: the comparisons are in the tier of + - %: a op1 b op2 c is
\* (a op1 b) op2 c for op1 and op2 of that tier, a op1 b * c is
\* a op1 (b * c), and a comparison yields 1 when true and 0 when false.
C2_ComparisonTier ==
    pc = "done" /\ Len(source.operands) \in {2, 3} =>
        LET a == source.operands[1].val
            b == source.operands[2].val
            c == source.operands[3].val
            op1 == source.ops[1].type
            op2 == source.ops[2].type
        IN /\ result.ok
           /\ Len(source.operands) = 2 =>
                  /\ result.val = Apply(op1, a, b)
                  /\ op1 \in Comparisons => result.val \in {One, PosZero}
           /\ Len(source.operands) = 3 /\ op1 \in Loose /\ op2 \in Loose =>
                  result.val = Apply(op2, Apply(op1, a, b), c)
           /\ Len(source.operands) = 3 /\ op1 \in Loose
                  /\ op2 = "Asterisk" =>
                  result.val = Apply(op1, a, Apply("Asterisk", b, c))

\* a sum compared to a literal, where grouping to the right gives another
\* value, has been evaluated
C2_Witness ==
    /\ pc = "done"
    /\ result.ok
    /\ Len(source.operands) = 3
    /\ source.ops[1].type = "Equal"
    /\ source.ops[2].type = "Plus"
    /\ result.val
           # Apply("Equal", source.operands[1].val,
                   Apply("Plus", source.operands[2].val,
                         source.operands[3].val))

AllStages == {"Lexer", "Parser", "Processor"}

\* C3: parse_formula is fail-fast and the tag of its error names the first
\* stage that failed: Lexer exactly when tokenize fails, and then no other
\* stage runs; Parser exactly when tokenize succeeds and parse fails, and then
\* the evaluator does not run; Processor exactly when both succeed and
\* execute fails.
C3_FailFast ==
    pc = "done" =>
        /\ ~tokens.ok <=> ~result.ok /\ result.error_type = "Lexer"
        /\ ~tokens.ok => ran = {"Lexer"}
        /\ tokens.ok /\ ~values.ok
               <=> ~result.ok /\ result.error_type = "Parser"
        /\ tokens.ok /\ ~values.ok => ran = {"Lexer", "Parser"}
        /\ tokens.ok /\ values.ok /\ ~execute_result(proc).ok
               <=> ~result.ok /\ result.error_type = "Processor"
        /\ tokens.ok /\ values.ok => ran = AllStages
        /\ result.ok => tokens.ok /\ values.ok /\ ran = AllStages

\* the parser has failed on the tokens of an input the tokenizer accepted
C3_Witness ==
    /\ pc = "done"
    /\ tokens.ok
    /\ ~values.ok
    /\ result.error_type = "Parser"

\* the declared arity of the function a call to name reaches
Arity(name, fns) ==
    all_functions(fns)[Find(all_functions(fns), name)].args_count

\* some call of c is written with a number of arguments that is not the
\* arity of its function
Mismatch(c, fns) ==
    \/ Len(c.args) # Arity(c.name, fns)
    \/ c.nest > 0 /\ Len(c.inner.args) # Arity(c.inner.name, fns)

\* C4: an accepted expression with a call whose number of arguments differs
\* from the arity of its function, all names being defined, gives a
\* Processor error and never Ok.
C4_ArityMismatchFails ==
    pc = "done" /\ tokens.ok /\ values.ok /\ Mismatch(source, functions) =>
        ~result.ok /\ result.error_type = "Processor"

\* no entry of table has this name
Missing(table, name) == \A i \in 1..Len(table) : table[i].name # name

\* the item is a variable or a function that the tables of p do not define
Undefined(item, p) ==
    \/ item.type = "Variable" /\ Missing(p.variables, item.name)
    \/ item.type = "Function" /\ Missing(p.functions, item.name)

\* C5: when evaluation reaches a variable or function item whose name is in
\* no table, execute stops there with an error, which parse_formula tags
\* Processor; no value is substituted.
C5_UndefinedName ==
    pc = "done" /\ values.ok =>
        \A i \in 1..Len(proc.values) :
            Undefined(proc.values[i], proc) /\ proc.index >= i =>
                /\ proc.index = i
                /\ ~proc.ok
                /\ ~result.ok
                /\ result.error_type = "Processor"

\* evaluation has reached an undefined function after a defined variable
C5_Witness ==
    /\ pc = "done"
    /\ values.ok
    /\ ~result.ok
    /\ proc.index = 2
    /\ proc.values[1].type = "Variable"
    /\ proc.values[2].type = "Function"
    /\ Undefined(proc.values[2], proc)

ReservedNames == {reserved_functions[i].name : i \in 1..Len(reserved_functions)}
CallerNames == {functions[i].name : i \in 1..Len(functions)}

\* C6 as stated: a call to a reserved name that the caller also supplies
\* invokes the caller's handler.
C6_CallerShadowsReserved ==
    pc = "done" =>
        \A k \in 1..Len(proc.calls) :
            LET i == proc.calls[k][1]
            IN proc.functions[i].name \in ReservedNames \cap CallerNames
                   => i > Len(reserved_functions)

\* C6, amended: a reserved function is not shadowed; a call Sub(a, b) gives
\* a - b also when the caller supplies a function named Sub.
C6_ReservedNotShadowed ==
    pc = "done" /\ source.name = <<"S", "u", "b">> /\ source.nest = 0
        /\ Len(source.args) = 2 =>
        result = ProcOk(FSub(source.args[1].val, source.args[2].val))

\* Sub(a, b) has been evaluated with a caller's Sub in the table whose
\* handler would have given another value
C6_Witness ==
    /\ pc = "done"
    /\ <<"S", "u", "b">> \in CallerNames
    /\ source.name = <<"S", "u", "b">>
    /\ source.nest = 0
    /\ Len(source.args) = 2
    /\ result.ok
    /\ result.val # source.args[2].val

\* C7: the table of the evaluator is the reserved functions followed by the
\* caller's in their order, a call reaches the first entry with its name, and
\* so a caller's function with a reserved name is never invoked.
C7_FirstMatch ==
    pc = "done" /\ values.ok =>
        /\ proc.functions = reserved_functions \o functions
        /\ \A k \in 1..Len(proc.calls) :
               LET i == proc.calls[k][1]
               IN /\ \A j \in 1..(i - 1) :
                         proc.functions[j].name # proc.functions[i].name
                  /\ i > Len(reserved_functions)
                         => proc.functions[i].name \notin ReservedNames

\* a reserved function and a caller's function have both been invoked, with
\* a caller's function of a reserved name in the table
C7_Witness ==
    /\ pc = "done"
    /\ ReservedNames \cap CallerNames # {}
    /\ Len(proc.calls) = 2
    /\ proc.calls[1][1] > Len(reserved_functions)
    /\ proc.functions[proc.calls[2][1]].name \in CallerNames
    /\ proc.calls[2][1] <= Len(reserved_functions)

\* the values of the literals ls
Vals(ls) == [k \in 1..Len(ls) |-> ls[k].val]

\* what the functions called are to return
Returns(name, args) ==
    CASE name = <<"S", "u", "b">> -> FSub(args[1], args[2])
      [] name = <<"I", "f">> ->
            IF FEq(args[1], PosZero) THEN args[3] ELSE args[2]
      [] name = <<"M", "i", "n", "u", "s">> -> FNeg(args[1])

\* C8: a handler receives its arguments in source order, args[i] being the
\* value of the (i+1)-th argument of the call; Sub(a, b) is a - b and
\* If(c, t, e) is t when c # 0 and e otherwise.
C8_ArgumentOrder ==
    pc = "done" /\ ~Mismatch(source, functions) =>
        LET outer == [k \in 1..Len(source.args) |->
                         IF k = source.nest
                         THEN Returns(source.inner.name,
                                      Vals(source.inner.args))
                         ELSE source.args[k].val]
        IN /\ result = ProcOk(Returns(source.name, outer))
           /\ proc.calls[Len(proc.calls)][2] = outer
           /\ source.nest > 0 => proc.calls[1][2] = Vals(source.inner.args)

\* If(0, 3, 0) and Sub(0, 3) have been evaluated
C8_Witness ==
    /\ pc = "done"
    /\ source.nest = 0
    /\ \/ /\ source.name = <<"I", "f">>
          /\ Vals(source.args) = <<PosZero, <<3, 1>>, PosZero>>
          /\ result = ProcOk(PosZero)
       \/ /\ source.name = <<"S", "u", "b">>
          /\ Vals(source.args) = <<PosZero, <<3, 1>>>>
          /\ result = ProcOk(<<-3, 1>>)

\* C9: at a binary operator item the evaluator pops two values, applies the
\* operator with the second popped as the left operand and the first popped
\* as the right one, and pushes the result.
C9_BinaryOperands ==
    [][ /\ pc = "loop"
        /\ proc.ok
        /\ proc.index <= Len(proc.values)
        /\ proc.values[proc.index].type \in Operators
        /\ Len(proc.stack) >= 2
        => LET n == Len(proc.stack)
           IN /\ proc'.ok
              /\ proc'.index = proc.index + 1
              /\ proc'.stack
                     = Append(SubSeq(proc.stack, 1, n - 2),
                              Apply(proc.values[proc.index].type,
                                    proc.stack[n - 1], proc.stack[n]))
      ]_vars

\* the sequence [3, -2, -] has been evaluated to 5
C9_Witness ==
    /\ pc = "returned"
    /\ proc.values = <<NumberVal(<<3, 1>>), NumberVal(<<-2, 1>>), Val("Minus")>>
    /\ result = ProcOk(<<5, 1>>)

\* the values an item pops
Pops(item, p) ==
    IF item.type \in Operators THEN 2
    ELSE IF item.type = "Function"
    THEN p.functions[Find(p.functions, item.name)].args_count
    ELSE 0

\* the height of the operand stack after the first k items of p, or -1 when
\* one of them has an undefined name or pops more than the stack holds
RECURSIVE Height(_, _)
Height(p, k) ==
    IF k = 0 THEN 0
    ELSE LET h == Height(p, k - 1)
             item == p.values[k]
         IN IF h < 0 \/ Undefined(item, p) THEN -1
            ELSE IF h < Pops(item, p) THEN -1
            ELSE h - Pops(item, p) + 1

\* C10: execute returns Ok(v) only when every item was processed without
\* error and the operand stack then holds exactly the value v; with no value
\* or several left, or a pop of the empty stack, it returns an error, and an
\* error carries no value.
C10_OneValueOrError ==
    pc = "returned" =>
        /\ result.ok <=> Height(proc, Len(proc.values)) = 1
        /\ result.ok =>
               /\ proc.index = Len(proc.values) + 1
               /\ proc.stack = <<result.val>>
        /\ ~result.ok => "val" \notin DOMAIN result

\* execute has returned an error with two values left on the stack, and with
\* none
C10_Witness ==
    /\ pc = "returned"
    /\ ~result.ok
    /\ proc.ok
    /\ Len(proc.stack) \in {0, 2}
    /\ proc.index = Len(proc.values) + 1

\* the text of a token that is neither a number nor a property
TokenText(type) ==
    CASE type = "Plus" -> <<"+">>
      [] type = "Minus" -> <<"-">>
      [] type = "Asterisk" -> <<"*">>
      [] type = "Slash" -> <<"/">>
      [] type = "Percent" -> <<"%">>
      [] type = "GreaterThan" -> <<">">>
      [] type = "LessThan" -> <<"<">>
      [] type = "GreaterThanOrEqual" -> <<">", "=">>
      [] type = "LessThanOrEqual" -> <<"<", "=">>
      [] type = "Equal" -> <<"=", "=">>
      [] type = "NotEqual" -> <<"!", "=">>
      [] type = "LeftParenthesis" -> <<"(">>
      [] type = "RightParenthesis" -> <<")">>
      [] type = "Comma" -> <<",">>

\* the text w stands in s at pos
At(s, pos, w) ==
    pos + Len(w) - 1 <= Len(s) /\ SubSeq(s, pos, pos + Len(w) - 1) = w

\* the tokens ts spell the text s from pos to its end, whitespace apart
RECURSIVE Spells(_, _, _)
Spells(ts, s, pos) ==
    LET p == SkipWhitespace(s, pos)
    IN IF ts = <<>> THEN p > Len(s)
       ELSE LET t == Head(ts)
            IN IF t.type = "Number" THEN
                   \E q \in p..Len(s) :
                       /\ parse_f64(SubSeq(s, p, q)).ok
                       /\ parse_f64(SubSeq(s, p, q)).val = t.val
                       /\ Spells(Tail(ts), s, q + 1)
               ELSE IF t.type = "Property" THEN
                   At(s, p, t.name) /\ Spells(Tail(ts), s, p + Len(t.name))
               ELSE At(s, p, TokenText(t.type))
                    /\ Spells(Tail(ts), s, p + Len(TokenText(t.type)))

\* C11: tokenize returns Ok only when the whole input has been consumed: when
\* the recursive descent stops with a character left, tokenize returns the
\* lexical error, and the tokens of an Ok spell the whole input.
C11_WholeInput ==
    pc = "parse" =>
        /\ expr(input, 1).ok /\ expr(input, 1).pos <= Len(input)
               => tokens = FormulaError(LexErr(<<"error: syntax error">>),
                                        "Lexer")
        /\ tokens.ok => Spells(tokens.tokens, input, 1)

\* two operands with only whitespace between them have been refused
C11_Witness ==
    /\ pc = "parse"
    /\ input = <<"1", " ", "1">>
    /\ ~tokens.ok
    /\ tokens.msg = <<"error: syntax error">>

\* the number of tokens of ts that are tok
Count(ts, tok) == Cardinality({i \in 1..Len(ts) : ts[i] = tok})

\* C12: an input that ends before a '(' is closed, in a grouping or in the
\* argument list of a call, is refused by the tokenizer: tokenize never
\* returns Ok with more '(' tokens than ')' tokens.
C12_UnclosedRejected ==
    pc = "parse" /\ tokens.ok =>
        Count(tokens.tokens, LeftParenthesis)
            <= Count(tokens.tokens, RightParenthesis)

\* the characters i..j of s are a run of letters that no letter precedes or
\* follows
LetterRun(s, i, j) ==
    /\ i <= j
    /\ \A k \in i..j : s[k] \in UpperCase \cup LowerCase
    /\ i > 1 => s[i - 1] \notin UpperCase \cup LowerCase
    /\ j < Len(s) => s[j + 1] \notin UpperCase \cup LowerCase

\* C13: a property is classified by the case of its first character:
\* tokenize fails unless every uppercase-initial property is directly
\* followed by '(', and fails when a lowercase-initial property is followed
\* by '('; in the tokens of an Ok a Property is immediately followed by
\* LeftParenthesis exactly when its first character is uppercase.
C13_PropertyCase ==
    pc = "parse" =>
        /\ \A i \in 1..Len(input) : \A j \in i..Len(input) :
               LetterRun(input, i, j) =>
                   /\ input[i] \in UpperCase
                          /\ ~(j < Len(input) /\ input[j + 1] = "(")
                          => ~tokens.ok
                   /\ input[i] \in LowerCase
                          /\ j < Len(input) /\ input[j + 1] = "("
                          => ~tokens.ok
        /\ tokens.ok =>
               \A k \in 1..Len(tokens.tokens) :
                   tokens.tokens[k].type = "Property" =>
                       (k < Len(tokens.tokens)
                            /\ tokens.tokens[k + 1] = LeftParenthesis
                        <=> tokens.tokens[k].name[1] \in UpperCase)

\* a call with a variable as its argument has been tokenized
C13_Witness ==
    /\ pc = "parse"
    /\ input = <<"A", "(", "x", ")">>
    /\ tokens.ok
    /\ tokens.tokens = <<PropertyTok(<<"A">>), LeftParenthesis,
                         PropertyTok(<<"x">>), RightParenthesis>>

\* the characters i..j of s are a run of digits and dots that starts a
\* numeric literal: no digit, dot or sign of a literal stands before it
LiteralRun(s, i, j) ==
    /\ i <= j
    /\ \A k \in i..j : is_numeric(s[k]) \/ s[k] = "."
    /\ j < Len(s) => ~(is_numeric(s[j + 1]) \/ s[j + 1] = ".")
    /\ i > 1 =>
           \/ s[i - 1] \in {"(", ",", " ", "<", ">", "=", "*", "/", "%"}
           \/ /\ s[i - 1] \in {"+", "-"}
              /\ i > 2
              /\ is_numeric(s[i - 2]) \/ s[i - 2] = ")"

\* C14: a numeric literal longer than one character whose first character is
\* '0' and whose second is not '.' makes tokenize return a lexical error;
\* '0' alone and '0.1' are numbers.
C14_LeadingZero ==
    pc = "parse" =>
        /\ \A i \in 1..Len(input) : \A j \in (i + 1)..Len(input) :
               LiteralRun(input, i, j) /\ input[i] = "0" /\ input[i + 1] # "."
                   => /\ ~tokens.ok
                      /\ i = 1 /\ j = Len(input) =>
                             tokens = FormulaError(
                                 LexErr(<<"error: invalid numeric string">>),
                                 "Lexer")
        /\ input = <<"0">> =>
               tokens = [ok |-> TRUE, tokens |-> <<NumberTok(PosZero)>>]
        /\ input = <<"0", ".", "1">> =>
               tokens = [ok |-> TRUE, tokens |-> <<NumberTok(<<1, 10>>)>>]

\* 1+01 has been refused for its second literal
C14_Witness ==
    /\ pc = "parse"
    /\ input = <<"1", "+", "0", "1">>
    /\ ~tokens.ok
    /\ tokens.msg = <<"error: invalid numeric string">>

\* the token of a comparison written c, or c followed by '='
Single(c) == IF c = ">" THEN Tok("GreaterThan") ELSE Tok("LessThan")
WithEqual(c) ==
    CASE c = ">" -> Tok("GreaterThanOrEqual")
      [] c = "<" -> Tok("LessThanOrEqual")
      [] c = "=" -> Tok("Equal")
      [] c = "!" -> Tok("NotEqual")

\* C15: comparisons are lexed with one character of lookahead.  After an
\* operand, '>' or '<' followed by '=' is >= or <=, and followed by anything
\* else is > or < with only the first character consumed; '=' or '!'
\* followed by '=' is == or !=, and followed by anything else is a lexical
\* error.
C15_ComparisonLookahead ==
    pc = "parse" /\ Len(input) >= 3 /\ input[1] = "1"
        /\ input[2] \in {">", "<", "=", "!"} =>
        LET c == input[2]
            d == input[3]
            one == NumberTok(One)
        IN /\ d = "=" /\ tokens.ok =>
                  /\ tokens.tokens[1] = one
                  /\ tokens.tokens[2] = WithEqual(c)
                  /\ Spells(Tail(Tail(tokens.tokens)), input, 4)
           /\ d # "=" /\ c \in {">", "<"} /\ tokens.ok =>
                  /\ tokens.tokens[1] = one
                  /\ tokens.tokens[2] = Single(c)
                  /\ Spells(Tail(Tail(tokens.tokens)), input, 3)
           /\ d # "=" /\ c \in {"=", "!"} =>
                  ~tokens.ok /\ tokens.error_type = "Lexer"
           /\ Len(input) = 3 /\ d = "1" /\ c \in {">", "<"} =>
                  tokens = [ok |-> TRUE, tokens |-> <<one, Single(c), one>>]
           /\ Len(input) = 4 /\ d = "=" /\ input[4] = "1" =>
                  tokens = [ok |-> TRUE,
                            tokens |-> <<one, WithEqual(c), one>>]

\* 1<=1 has been tokenized
C15_Witness ==
    /\ pc = "parse"
    /\ input = <<"1", "<", "=", "1">>
    /\ tokens = [ok |-> TRUE,
                 tokens |-> <<NumberTok(One), Tok("LessThanOrEqual"),
                              NumberTok(One)>>]

\* the result of the k-th call, once it has returned
Returned(k) == k < Len(source) \/ pc = "done"
ResultOf(k) == IF k < Len(source) THEN source[k].result ELSE result

\* C16: parse_formula is deterministic and leaves no state behind: two calls
\* with the same text and equal tables return the same result, whatever
\* calls were made in between, and a call returns what a first call with its
\* arguments returns.
C16_Deterministic ==
    \A j \in 1..Len(source) :
        Returned(j) =>
            /\ \A i \in 1..(j - 1) :
                   source[i].args = source[j].args => ResultOf(i) = ResultOf(j)
            /\ ResultOf(j) = parse_formula(source[j].args.text,
                                           source[j].args.fns,
                                           source[j].args.vs)

\* the same call has returned Ok twice with a failing call in between
C16_Witness ==
    /\ pc = "done"
    /\ Len(source) = 3
    /\ source[1].args = source[3].args
    /\ source[2].args # source[1].args
    /\ ~source[2].result.ok
    /\ source[1].result.ok
    /\ result = source[1].result

\* r is not a panic
NoPanic(r) == ~("panic" \in DOMAIN r /\ r.panic)

\* C17: for every input, with the reserved functions and caller functions
\* whose handlers read only their declared number of arguments,
\* parse_formula ends in Ok or in an error and never in a panic: no unwrap
\* meets None and no handler is invoked with fewer arguments than its arity.
C17_NoCrash ==
    /\ NoPanic(tokens) /\ NoPanic(values) /\ NoPanic(proc) /\ NoPanic(result)
    /\ pc = "done" => result.ok \/ result.error_type \in AllStages
    /\ \A k \in 1..Len(proc.calls) :
           LET func == proc.functions[proc.calls[k][1]]
           IN /\ Len(proc.calls[k][2]) = func.args_count
              /\ Len(proc.calls[k][2]) >= HandlerReads(func.handler)

\* Sub(0) has ended in an error of the evaluator without a call of the
\* handler, and the literal 0 in a value
C17_Witness ==
    /\ pc = "done"
    /\ \/ /\ input = <<"S", "u", "b", "(", "0", ")">>
          /\ ~result.ok
          /\ result.error_type = "Processor"
          /\ proc.calls = <<>>
       \/ /\ input = <<"0">>
          /\ result = ProcOk(PosZero)

\* every name among the items vs is in its table
AllDefined(vs, fns, vars_) ==
    \A k \in 1..Len(vs) :
        /\ vs[k].type = "Function" => ~Missing(reserved_functions \o fns,
                                               vs[k].name)
        /\ vs[k].type = "Variable" => ~Missing(vars_, vs[k].name)

\* C18 as stated: for every input that tokenize and parse accept and whose
\* names are all defined, execute returns Ok.
C18_AlwaysReduces ==
    pc = "done" /\ tokens.ok /\ values.ok
        /\ AllDefined(values.values, functions, variables) =>
        result.ok

\* C18, amended: for every input that tokenize and parse accept, whose names
\* are all defined and whose calls are each written with as many arguments
\* as the function declares, the postfix sequence reduces to exactly one
\* value: execute returns Ok, with no underflow and no operand left.
C18_MatchedReduces ==
    pc = "done" /\ tokens.ok /\ values.ok
        /\ AllDefined(values.values, functions, variables)
        /\ ~Mismatch(source, functions) =>
        /\ result.ok
        /\ proc.ok
        /\ proc.index = Len(proc.values) + 1
        /\ Height(proc, Len(proc.values)) = 1
        /\ Len(proc.stack) = 1

\* a call with a call among its arguments has been reduced to one value
C18_Witness ==
    /\ pc = "done"
    /\ source.nest > 0
    /\ ~Mismatch(source, functions)
    /\ Len(source.args) = 3
    /\ result.ok
    /\ Len(proc.calls) = 2

\* the number of '(' open after the first k tokens of ts, or -1 when one of
\* them is a ')' or a ',' with no '(' open
RECURSIVE Open(_, _)
Open(ts, k) ==
    IF k = 0 THEN 0
    ELSE LET d == Open(ts, k - 1)
         IN IF d < 0 THEN -1
            ELSE IF ts[k] = LeftParenthesis THEN d + 1
            ELSE IF ts[k] = RightParenthesis THEN d - 1
            ELSE IF ts[k] = Comma /\ d = 0 THEN -1
            ELSE d

\* C19: parse returns an error for every token list with unbalanced
\* delimiters: a ')' or a ',' with no '(' open, or a '(' (and the function
\* name before it) still open at the end; and the output of an Ok has no
\* parenthesis in it.
C19_Unbalanced ==
    pc = "execute" =>
        /\ Open(source, Len(source)) # 0
               => ~values.ok /\ values.error_type = "Parser"
        /\ values.ok =>
               \A k \in 1..Len(values.values) :
                   values.values[k].type
                       \in Operators \cup {"Number", "Function", "Variable"}

\* a call left open, or a ")" too many, has been refused after a
\* balanced pair
C19_Witness ==
    /\ pc = "execute"
    /\ ~values.ok
    /\ Len(source) = 5
    /\ SubSeq(source, 1, 2) = <<LeftParenthesis, NumberTok(One)>>
    /\ source[3] = RightParenthesis
    /\ source[4] = Tok("Plus")
    /\ source[5] \in {LeftParenthesis, RightParenthesis}

\* the token i of ts is a Property with '(' as the next token
IsCall(ts, i) ==
    ts[i].type = "Property" /\ i < Len(ts) /\ ts[i + 1] = LeftParenthesis

\* the token k of ts gives one item of the output
Emits(ts, k) == ts[k].type \in Operators \cup {"Number", "Property"}

\* the item the token k of ts gives
ItemOf(ts, k) ==
    IF ts[k].type = "Number" THEN NumberVal(ts[k].val)
    ELSE IF ts[k].type = "Property"
    THEN IF IsCall(ts, k) THEN FunctionVal(ts[k].name)
         ELSE VariableVal(ts[k].name)
    ELSE Val(ts[k].type)

\* the ')' that closes the '(' at i, in a balanced list
Closing(ts, i) ==
    CHOOSE m \in (i + 1)..Len(ts) :
        /\ Open(ts, m) = Open(ts, i) - 1
        /\ \A n \in (i + 1)..(m - 1) : Open(ts, n) >= Open(ts, i)

\* the items of vs with a type of T, in their order
Only(vs, T) == SelectSeq(vs, LAMBDA v : v.type \in T)

\* the tokens of ts that are operands, as items, in their order
RECURSIVE Operands(_, _)
Operands(ts, k) ==
    IF k > Len(ts) THEN <<>>
    ELSE IF ts[k].type = "Number" \/ (ts[k].type = "Property" /\ ~IsCall(ts, k))
    THEN <<ItemOf(ts, k)>> \o Operands(ts, k + 1)
    ELSE Operands(ts, k + 1)

\* the index in vs of the r-th Function item
FunctionAt(vs, r) ==
    CHOOSE j \in 1..Len(vs) :
        /\ vs[j].type = "Function"
        /\ Cardinality({n \in 1..(j - 1) : vs[n].type = "Function"}) = r - 1

\* C20: in the output of the parser a Property followed by '(' is one
\* Function item that stands immediately after all the items of the tokens
\* between that '(' and its ')', and a Property followed by anything else,
\* or by nothing, is a Variable item at its own place among the operands.
C20_FunctionAfterArguments ==
    pc = "execute" /\ values.ok =>
        LET ts == source
            vs == values.values
            calls == {i \in 1..Len(ts) : IsCall(ts, i)}
        IN /\ Len(Only(vs, {"Function"})) = Cardinality(calls)
           /\ Only(vs, {"Number", "Variable"}) = Operands(ts, 1)
           /\ \A i \in calls :
                  LET m == Closing(ts, i + 1)
                      r == Cardinality({c \in calls :
                                           Closing(ts, c + 1) <= m})
                      j == FunctionAt(vs, r)
                      inside == {k \in (i + 2)..(m - 1) : Emits(ts, k)}
                      n == Cardinality(inside)
                  IN /\ vs[j] = FunctionVal(ts[i].name)
                     /\ j > n
                     /\ \A k \in inside :
                            Cardinality({q \in (j - n)..(j - 1) :
                                            vs[q] = ItemOf(ts, k)})
                                = Cardinality({q \in inside :
                                                  ItemOf(ts, q)
                                                      = ItemOf(ts, k)})

\* F(x) has been parsed after a variable: x, then x and F
C20_Witness ==
    /\ pc = "execute"
    /\ source = <<PropertyTok(<<"x">>), PropertyTok(<<"F">>),
                  LeftParenthesis, PropertyTok(<<"x">>), RightParenthesis>>
    /\ values.ok
    /\ values.values = <<VariableVal(<<"x">>), VariableVal(<<"x">>),
                         FunctionVal(<<"F">>)>>

\* the tokens of ts are operand, operator, operand, and so on to an operand
Alternating(ts) ==
    /\ Len(ts) % 2 = 1
    /\ \A k \in 1..Len(ts) :
           IF k % 2 = 1 THEN ts[k].type \in {"Number", "Property"}
           ELSE ts[k].type \in Operators

\* C21 as stated: a token list in an unexpected order, an operator with a
\* missing operand or two operands with no operator between them, is
\* rejected by parse.
C21_OrderRejected ==
    pc \in {"execute", "done"} /\ ~Alternating(source) => ~values.ok

\* C21: parse does not look at the order of operands and operators: every
\* list of numbers, variables and operators that is not empty is turned
\* into a postfix sequence with an item for each token, its operands in the
\* order of the tokens; a list that is not one operand more than operators
\* then fails in execute, with a Processor error.
C21_OrderNotChecked ==
    /\ pc \in {"execute", "done"} /\ source # <<>> =>
           /\ values.ok
           /\ Len(values.values) = Len(source)
           /\ Only(values.values, {"Number", "Variable"}) = Operands(source, 1)
           /\ \A t \in Operators :
                  Count(values.values, Val(t)) = Count(source, Tok(t))
    /\ pc = "done" /\ source # <<>> =>
           /\ Len(Operands(source, 1)) # Len(source) - Len(Operands(source, 1)) + 1
                  => ~result.ok
           /\ Alternating(source) => result.ok
           /\ ~result.ok =>
                  result = FormulaError(ProcErr(<<"error: syntax error">>),
                                        "Processor")

\* a lone "+", or "1 + * x", has been parsed and has failed in execute
C21_Witness ==
    /\ pc = "done"
    /\ source \in {<<Tok("Plus")>>,
                   <<NumberTok(One), Tok("Plus"), Tok("Asterisk"),
                     PropertyTok(<<"x">>)>>}
    /\ values.ok
    /\ ~result.ok

\* C22: whenever parse_expr returns Ok the token cursor is past the last
\* token, so the leftover half of the final check of parse never fires:
\* parse rejects exactly when parse_expr failed or its output is empty, and
\* otherwise returns the output of parse_expr.
C22_CursorAtEnd ==
    pc = "execute" =>
        LET q == parse_expr(NewParser(source))
        IN /\ q.ok => q.index > Len(source) /\ peek(q) = <<>>
           /\ values.ok <=> q.ok /\ q.values # <<>>
           /\ values.ok => values.values = q.values
           /\ q.ok /\ q.values = <<>> =>
                  values = FormulaError(ParseErr(<<"error: syntax error">>),
                                        "Parser")
           /\ ~q.ok => values = FormulaError(q, "Parser")

\* "(" ")" has gone through parse_expr with an empty output, and parse has
\* refused it
C22_Witness ==
    /\ pc = "execute"
    /\ source = <<LeftParenthesis, RightParenthesis>>
    /\ parse_expr(NewParser(source)).ok
    /\ parse_expr(NewParser(source)).values = <<>>
    /\ parse_expr(NewParser(source)).index = 3
    /\ ~values.ok

\* the last character of s before k that is not a space, or "" for none
RECURSIVE PrevChar(_, _)
PrevChar(s, k) ==
    IF k <= 1 THEN ""
    ELSE IF s[k - 1] = " " THEN PrevChar(s, k - 1)
    ELSE s[k - 1]

\* the character at k of s comes after a complete factor: a literal, a ')'
\* or a variable
AfterFactor(s, k) ==
    LET c == PrevChar(s, k)
    IN c # "" /\ (is_numeric(c) \/ c \in {".", ")"} \/ is_lowercase(c))

\* the positions of s with the sign c in the place of a factor, and after one
SignsOfLiteral(s, c) == {k \in 1..Len(s) : s[k] = c /\ ~AfterFactor(s, k)}
SignsAfterFactor(s, c) == {k \in 1..Len(s) : s[k] = c /\ AfterFactor(s, k)}

\* C23: a '+' or '-' where a factor is expected is the sign of a literal and
\* must have the literal's digits right after it, or the text is a lexical
\* error; a '+' or '-' after a complete factor is a binary operator: in an
\* accepted text the Plus and Minus tokens are the signs after a factor and
\* the negative literals are the '-' in the place of a factor. "1-1" gives
\* [1, Minus, 1], "(-1)" gives [(, -1, )], and number() on "1 - 1" reads
\* only the first 1.
C23_SignOrOperator ==
    pc = "parse" =>
        /\ \A c \in {"+", "-"} : \A k \in SignsOfLiteral(input, c) :
               (k = Len(input)
                \/ ~(is_numeric(input[k + 1]) \/ input[k + 1] = "."))
                   => ~tokens.ok /\ tokens.error_type = "Lexer"
        /\ tokens.ok =>
               /\ Count(tokens.tokens, Tok("Plus"))
                      = Cardinality(SignsAfterFactor(input, "+"))
               /\ Count(tokens.tokens, Tok("Minus"))
                      = Cardinality(SignsAfterFactor(input, "-"))
               /\ Cardinality({i \in 1..Len(tokens.tokens) :
                                   /\ tokens.tokens[i].type = "Number"
                                   /\ IsNeg(tokens.tokens[i].val)})
                      = Cardinality(SignsOfLiteral(input, "-"))
        /\ input = <<"1", "-", "1">> =>
               tokens.ok /\ tokens.tokens
                   = <<NumberTok(One), Tok("Minus"), NumberTok(One)>>
        /\ input = <<"(", "-", "1", ")">> =>
               tokens.ok /\ tokens.tokens
                   = <<LeftParenthesis, NumberTok(<<-1, 1>>),
                       RightParenthesis>>
        /\ input = <<"1", " ", "-", " ", "1">> =>
               number(input, 1) = LexOk(<<NumberTok(One)>>, 2)

\* "1--1" has been read as 1, Minus, -1
C23_Witness ==
    /\ pc = "parse"
    /\ input = <<"1", "-", "-", "1">>
    /\ tokens.ok
    /\ tokens.tokens = <<NumberTok(One), Tok("Minus"), NumberTok(<<-1, 1>>)>>

\* what parse_formula gives for the stages that have returned
StepsAgree ==
    /\ pc # "lex" =>
           tokens = IF tokenize(input).ok
                    THEN [ok |-> TRUE, tokens |-> tokenize(input).tokens]
                    ELSE FormulaError(tokenize(input), "Lexer")
    /\ pc \in {"loop", "returned"} /\ tokens.ok =>
           values = IF parse(NewParser(tokens.tokens)).ok
                    THEN [ok |-> TRUE,
                          values |-> parse(NewParser(tokens.tokens)).values]
                    ELSE FormulaError(parse(NewParser(tokens.tokens)),
                                      "Parser")
    /\ pc = "returned" =>
           LET r == parse_formula(input, functions, variables)
           IN IF result.ok THEN result = r
              ELSE ~r.ok /\ result.msg = r.msg

\* a step of a loop goes on: an iteration of the parser's loops moves the
\* cursor on or pops the stack, an iteration of the evaluator moves its
\* cursor by one unless it fails, and it returns only at the first error or
\* at the end, and an iteration of a loop of the tokenizer reads a character
\* or leaves the loop; each of them may fail instead
LoopsProgress ==
    /\ ParseStep \/ ParseDrain =>
           \/ ~values'.ok
           \/ values'.index > values.index
           \/ Len(values'.stack) < Len(values.stack)
    /\ ExecuteItem =>
           IF proc'.ok THEN proc'.index = proc.index + 1
           ELSE proc'.index = proc.index
    /\ ExecuteReturn => ~proc.ok \/ proc.index = Len(proc.values) + 1
    /\ LexStep /\ tokens.at \in LexLoops =>
           \/ ~tokens'.ok
           \/ tokens'.pos > tokens.pos
           \/ tokens'.at # tokens.at

\* C24: every stage terminates on every finite input: each iteration of a
\* loop of the parser, the evaluator and the tokenizer goes on as
\* LoopsProgress says, and parse_formula always eventually returns, with
\* the result the three stages give.
C24_Terminates ==
    /\ [][LoopsProgress]_vars
    /\ []StepsAgree
    /\ <>(pc = "returned")

\* "F(1+x" has gone through the loops of the tokenizer and of the parser,
\* and parse_formula has returned the error of the parser
C24_Witness ==
    /\ pc = "returned"
    /\ source = <<<<"F", "(">>, <<"1">>, <<"+">>, <<"x">>>>
    /\ ran = {"Lexer", "Parser"}
    /\ tokens.ok
    /\ ~result.ok
    /\ result.error_type = "Parser"

\* C25: in every run of execute, calc is called with as many arguments as
\* the args_count of the function, so its own error on their number is
\* never returned: a call written with too few arguments fails as an
\* underflow of the stack at the function, and one written with too many as
\* values left on the stack after the last item.
C25_CalcArity ==
    pc = "done" /\ "Processor" \in ran =>
        /\ \A k \in 1..Len(proc.calls) :
               Len(proc.calls[k][2])
                   = proc.functions[proc.calls[k][1]].args_count
        /\ ~result.ok =>
               result = FormulaError(ProcErr(<<"error: syntax error">>),
                                     "Processor")
        /\ source.nest = 0
               /\ Len(source.args) < Arity(source.name, functions) =>
               /\ ~result.ok
               /\ ~proc.ok
               /\ proc.values[proc.index] = FunctionVal(source.name)
               /\ Len(proc.stack) = Len(source.args)
               /\ proc.calls = <<>>
        /\ source.nest = 0
               /\ Len(source.args) > Arity(source.name, functions) =>
               /\ ~result.ok
               /\ proc.ok
               /\ proc.index = Len(proc.values) + 1
               /\ Len(proc.calls) = 1
               /\ Len(proc.stack)
                      = Len(source.args) - Arity(source.name, functions) + 1

\* Sub has been called with three arguments written: calc took two of them
\* and two values were left
C25_Witness ==
    /\ pc = "done"
    /\ source.nest = 0
    /\ source.name = <<"S", "u", "b">>
    /\ Len(source.args) = 3
    /\ Len(proc.calls) = 1
    /\ Len(proc.calls[1][2]) = 2
    /\ Len(proc.stack) = 2
    /\ ~result.ok

\* C26: execute does not set the cursor of the Processor back: after a call
\* that returned Ok the cursor is at the end of the sequence, and one more
\* call on the same Processor starts there with an empty stack and returns
\* the syntax error, never Ok again; after a call that returned an error
\* from an item the cursor is still at that item, which fails again on the
\* stack it failed on, and after an error of the final check it is at the
\* end.
C26_CursorKept ==
    LET n == Len(source.returns)
        end == Len(proc.values) + 1
    IN /\ n >= 1 => proc.index >= source.returns[n].index
       /\ pc = "returned" =>
              /\ result.ok => proc.index = end
              /\ ~result.ok /\ proc.ok => proc.index = end
              /\ ~result.ok /\ ~proc.ok =>
                     /\ proc.index < end
                     /\ ~execute_item(Processor(proc.values, proc.functions,
                                                proc.variables, proc.index,
                                                proc.stack, proc.calls)).ok
              /\ n >= 1 /\ source.returns[n].result.ok =>
                     /\ result = ProcErr(<<"error: syntax error">>)
                     /\ proc.ok
                     /\ proc.index = end
                     /\ proc.stack = <<>>
              /\ n >= 1 /\ ~source.returns[n].result.ok =>
                     ~result.ok /\ proc.index = source.returns[n].index

\* "3 -2 -" has given Ok(5), and one more call of execute has returned an
\* error with the cursor still at the end
C26_Witness ==
    /\ pc = "returned"
    /\ source.values = <<NumberVal(<<3, 1>>), NumberVal(<<-2, 1>>),
                         Val("Minus")>>
    /\ Len(source.returns) = 1
    /\ source.returns[1] = [result |-> ProcOk(<<5, 1>>), index |-> 4]
    /\ ~result.ok
    /\ proc.index = 4

=============================================================================
